---- MODULE Spec2Model ----
(***************************************************************************)
(* Node registry and polling/reconnect core of helios-network-stats.       *)
(*                                                                         *)
(*   RpcWsClient (services/RpcWsClient.ts)  one JSON-RPC websocket client  *)
(*   NodeEntry   (services/NodeEntry.ts)    one monitor: poll loop + rpc   *)
(*   Registry    (services/Registry.ts)     name -> NodeEntry, listeners   *)
(*                                                                         *)
(* Time is the integer clock `now` in milliseconds.  A timer is the        *)
(* deadline it was armed for; the clock never passes an armed deadline, so *)
(* a timer callback runs at its deadline, in any order with the other      *)
(* events of that instant.  The websocket library is the environment: it   *)
(* delivers the open, message, error and close events of a socket at any   *)
(* moment the socket's state allows; for a socket that never opened it     *)
(* emits error and close back to back.                                     *)
(*                                                                         *)
(* The specifications share the operators of the three classes:            *)
(*   SpecRpc   one RpcWsClient driven through its public methods           *)
(*   SpecNode  one NodeEntry, started once, with its client and poll loop  *)
(*   Spec      the Registry with the monitors it creates; its clock is     *)
(*             relative (every deadline moves toward 0 as time passes)     *)
(*   SpecBackoff  one RpcWsClient whose sockets fail, open and close, with *)
(*             the jitter of the reconnect delay drawn from several values *)
(*   SpecSweep, SpecListen, SpecDisk  the Registry with the offline        *)
(*             sweeper, with listeners, with a nodes file that may fail    *)
(*   SpecQuery, SpecStore  the queries of the Registry and its nodes file  *)
(*   SpecMeter, SpecWindow  the metrics one monitor's poll cycles write    *)
(*   FairSpecRpc, FairSpecNode  SpecRpc and SpecNode under an event loop   *)
(*             that runs due timers                                        *)
(***************************************************************************)
EXTENDS Integers, Sequences, FiniteSets, TLC

VARIABLES
  now,   \* the clock, ms
  rpc,   \* the RpcWsClient under test
  ev,    \* the handler that ran last (SpecRpc, SpecNode)
  disc,  \* disconnect() was called and no connect() has made a socket since
  node,  \* the NodeEntry under test
  reg,   \* the Registry
  heard, \* the monitors whose updates the Registry has passed to its listeners
  hist,  \* per name: never upserted, up, removed, or upserted again while up
  events, \* socket events given to the monitors, requests sent, other calls
  delays, \* the delays of the reconnects scheduled since the last open
  server, \* the offline sweeper of the StatsServer
  view,  \* a map of snapshots and the latest query made of it
  meter  \* the metrics of one monitor and the answers of its latest poll cycle

\* ------------------------------------------------------------------ bounds
\* sockets created plus calls sent by one RpcWsClient
MaxOps == 4
\* the clock stops here
MaxTime == 76000
\* sockets one NodeEntry's client may create
MaxNodeSocks == 2
\* requests one NodeEntry may send
MaxNodeCalls == 7
\* the clock of a NodeEntry on its own stops here
MaxNodeTime == 21000
\* samples pushed into the rolling window of one monitor
MaxSamples == 11

\* sockets the client may create while its reconnect delays are looked at
MaxAttempts == 6
\* the work of the Registry: monitors it creates plus socket events given to
\* them plus requests they send, all together
MaxRegWork == 5

\* ------------------------------------------------------- program constants
reconnectDelay == 2000
maxReconnectDelay == 30000
maxAge == 60000
defaultTimeoutMs == 15000
pollIntervalMs == 3000
graceMs == 100
Names == {"a", "b"}
Hosts == {"h1"}

\* a timer handle that is not armed
NoTimer == -1

\* timeoutMs arguments of call(): the default and one above the sweep ceiling
TimeoutChoices == {defaultTimeoutMs, 70000}
\* Math.random() * 1000, as whole milliseconds
JitterChoices == {0}
\* the same, drawn from more values where the delays are what is looked at
BackoffJitter == {0, 500, 999}
\* how far the clock may move in one step when no timer is due earlier
TickSteps == {60001}

Min(a, b) == IF a <= b THEN a ELSE b

\* ------------------------------------------------------------- RpcWsClient
(* A client is a record:                                                   *)
(*   socks      the readyState of every WebSocket this client created that *)
(*              has not closed yet, oldest first: "connecting", "open",    *)
(*              "aborting" (terminated during the handshake: the library   *)
(*              emits error, then close), "closing" (terminated or failed: *)
(*              close is to come)                                          *)
(*   wsLive     this.ws is the last socket of socks; FALSE when this.ws is *)
(*              undefined or has closed                                    *)
(*   idCounter, connected, connecting, shouldReconnect,                    *)
(*   currentReconnectDelay   the fields of the class                       *)
(*   pending    the pending map: a set of [id, createdAt, timeoutMs]       *)
(*              (timeoutMs is the argument the call was made with)         *)
(*   timeouts   the armed request timers: a set of [id, at]                *)
(*   reconnectTimer   deadline of the armed reconnect timer, or NoTimer    *)
(*   made       how many sockets this client has created                   *)
(*   last       the promises the latest handler settled: a set of          *)
(*              [id, how], how being "result" or the error it rejected with*)
(***************************************************************************)
RpcWsClient ==
  [ socks |-> << >>, wsLive |-> FALSE, idCounter |-> 1, pending |-> {},
    timeouts |-> {}, connected |-> FALSE, connecting |-> FALSE,
    reconnectTimer |-> NoTimer, currentReconnectDelay |-> reconnectDelay,
    shouldReconnect |-> TRUE, made |-> 0, last |-> {} ]

\* this.ws.readyState, "none" when this.ws is undefined or closed
readyState(c) == IF c.wsLive THEN c.socks[Len(c.socks)] ELSE "none"

isConnected(c) == c.connected

pendingIds(c) == {p.id : p \in c.pending}

\* resolve / reject of the promises of ids
settle(c, ids, how) ==
  [c EXCEPT !.last = @ \cup {[id |-> i, how |-> how] : i \in ids}]

\* clearTimeout(p.timeout) and pending.delete(id) for ids
forget(c, ids) ==
  [c EXCEPT !.timeouts = {x \in @ : x.id \notin ids},
            !.pending = {p \in @ : p.id \notin ids}]

clearReconnect(c) == [c EXCEPT !.reconnectTimer = NoTimer]

\* connect(): no-op while connecting or connected, else a new socket
connectBlocked(c) == c.connecting \/ c.connected

connect(c) ==
  IF connectBlocked(c) THEN c
  ELSE [clearReconnect(c) EXCEPT
          !.connecting = TRUE,
          !.shouldReconnect = TRUE,
          !.socks = Append(@, "connecting"),
          !.wsLive = TRUE,
          !.made = @ + 1]

\* (mutant) the open handler leaves the backoff where it was
onOpen_keepsDelay(c) == [c EXCEPT !.connected = TRUE, !.connecting = FALSE]

\* ws.on('open')
onOpen(c) ==
  [c EXCEPT !.connected = TRUE, !.connecting = FALSE,
            !.currentReconnectDelay = reconnectDelay]

\* (mutant) the next delay is doubled and jittered but not capped
scheduleReconnect_noCap(c, t, jitter) ==
  IF ~c.shouldReconnect THEN c
  ELSE [clearReconnect(c) EXCEPT
          !.reconnectTimer = t + c.currentReconnectDelay,
          !.currentReconnectDelay = c.currentReconnectDelay * 2 + jitter]

scheduleReconnect(c, t, jitter) ==
  IF ~c.shouldReconnect THEN c
  ELSE [clearReconnect(c) EXCEPT
          !.reconnectTimer = t + c.currentReconnectDelay,
          !.currentReconnectDelay =
             Min(c.currentReconnectDelay * 2 + jitter, maxReconnectDelay)]

\* (mutant) the close handler rejects and clears the table, timers left armed
onClose_keepsTimers(c, t, jitter) ==
  scheduleReconnect(
    [settle(c, pendingIds(c), "ConnectionClosed")
       EXCEPT !.connected = FALSE, !.connecting = FALSE, !.pending = {}],
    t, jitter)

\* ws.on('close'): every pending request is rejected, the table cleared
onClose(c, t, jitter) ==
  scheduleReconnect(
    [settle(forget(c, pendingIds(c)), pendingIds(c), "ConnectionClosed")
       EXCEPT !.connected = FALSE, !.connecting = FALSE, !.pending = {}],
    t, jitter)

\* ws.on('error')
onError(c) == [c EXCEPT !.connecting = FALSE]

\* this.ws?.terminate()
terminate(c) ==
  IF readyState(c) = "connecting"
    THEN [c EXCEPT !.socks[Len(c.socks)] = "aborting"]
  ELSE IF readyState(c) = "open"
    THEN [c EXCEPT !.socks[Len(c.socks)] = "closing"]
  ELSE c

tooOld(c, t) == {p.id : p \in {q \in c.pending : t - q.createdAt > maxAge}}

\* (mutant) the sweep rejects every pending request, whatever its age
cleanupOldRequests_all(c, t) ==
  settle(forget(c, pendingIds(c)), pendingIds(c), "Expired")

cleanupOldRequests(c, t) ==
  settle(forget(c, tooOld(c, t)), tooOld(c, t), "Expired")

\* (mutant) disconnect() that leaves shouldReconnect set
disconnect_keepsReconnect(c, t) ==
  cleanupOldRequests(
    [terminate(clearReconnect(c)) EXCEPT
       !.connecting = FALSE, !.connected = FALSE],
    t)

disconnect(c, t) ==
  cleanupOldRequests(
    [terminate(clearReconnect(c)) EXCEPT
       !.shouldReconnect = FALSE, !.connecting = FALSE, !.connected = FALSE],
    t)

\* ws.on('message'): shape is which of result / error the parsed object has,
\* or "malformed" when JSON.parse throws; id 0 is an absent or non-numeric id
MsgShapes == {"result", "error", "both", "neither", "malformed"}

\* (mutant) the error field is looked at before the result field
msgOutcome_errorFirst(shape) ==
  IF shape \in {"error", "both"} THEN "RemoteError"
  ELSE IF shape = "result" THEN "result"
  ELSE "ProtocolError"

msgOutcome(shape) ==
  IF shape \in {"result", "both"} THEN "result"
  ELSE IF shape = "error" THEN "RemoteError"
  ELSE "ProtocolError"

onMessage(c, id, shape) ==
  IF shape # "malformed" /\ id \in pendingIds(c)
    THEN settle(forget(c, {id}), {id}, msgOutcome(shape))
    ELSE c

\* call(): rejected at once unless this.ws is OPEN
canSend(c) == readyState(c) = "open"

\* (mutant) the request timer is armed with the default, not the argument
call_defaultTimer(c, timeoutMs, t, sendThrows) ==
  LET id == c.idCounter
      sent == [c EXCEPT
                 !.idCounter = @ + 1,
                 !.timeouts = @ \cup {[id |-> id, at |-> t + defaultTimeoutMs]},
                 !.pending = @ \cup {[id |-> id, createdAt |-> t,
                                      timeoutMs |-> timeoutMs]}]
  IN IF sendThrows THEN settle(forget(sent, {id}), {id}, "SendError")
     ELSE sent

\* (mutant) the id counter is read but not advanced
call_sameId(c, timeoutMs, t, sendThrows) ==
  LET id == c.idCounter
      sent == [c EXCEPT
                 !.timeouts = @ \cup {[id |-> id, at |-> t + timeoutMs]},
                 !.pending = @ \cup {[id |-> id, createdAt |-> t,
                                      timeoutMs |-> timeoutMs]}]
  IN IF sendThrows THEN settle(forget(sent, {id}), {id}, "SendError")
     ELSE sent

call(c, timeoutMs, t, sendThrows) ==
  LET id == c.idCounter
      sent == [c EXCEPT
                 !.idCounter = @ + 1,
                 !.timeouts = @ \cup {[id |-> id, at |-> t + timeoutMs]},
                 !.pending = @ \cup {[id |-> id, createdAt |-> t,
                                      timeoutMs |-> timeoutMs]}]
  IN IF sendThrows THEN settle(forget(sent, {id}), {id}, "SendError")
     ELSE sent

\* the request timer's callback
onTimeout(c, id) ==
  IF id \in pendingIds(c)
    THEN settle(forget(c, {id}), {id}, "Timeout")
    ELSE [c EXCEPT !.timeouts = {x \in @ : x.id # id}]

\* the armed timers of a client
deadlines(c) ==
  {x.at : x \in c.timeouts}
    \cup (IF c.reconnectTimer # NoTimer THEN {c.reconnectTimer} ELSE {})

\* a socket event: socket s moves to readyState st (dropped once closed)
sockTo(c, s, st) ==
  IF st = "closed"
    THEN [c EXCEPT !.socks = SubSeq(@, 1, s - 1) \o SubSeq(@, s + 1, Len(@)),
                   !.wsLive = @ /\ s # Len(c.socks)]
    ELSE [c EXCEPT !.socks[s] = st]

\* the client may still create a socket or send a call
inBudget(c) == c.made + (c.idCounter - 1) < MaxOps

\* a handler starts with nothing settled by it
begin(c) == [c EXCEPT !.last = {}]

\* --------------------------------------------------------------- NodeEntry
(* A monitor is a record:                                                  *)
(*   rpc        its RpcWsClient                                            *)
(*   pollTimer  deadline of the armed poll timer, or NoTimer               *)
(*   polling    the polling flag                                           *)
(*   snapshot   [connected, lastError] ("none" is undefined)               *)
(*   polls      the poll() invocations suspended at an await: a set of     *)
(*              [pc, wait, fatal, blockOk]: pc "w1" awaits eth_blockNumber,*)
(*              "w2" the Promise.all of the five metric probes, "w3"       *)
(*              eth_getBlockByNumber; wait the ids awaited, fatal those    *)
(*              whose rejection rejects the await, blockOk whether the     *)
(*              block number parsed to a finite number                     *)
(*   out        the snapshots passed to onUpdate by the latest handler     *)
(*   name, host the node it watches                                        *)
(*   stopped    stop() has been called                                     *)
(***************************************************************************)
NodeEntry(name, host) ==
  [ name |-> name, host |-> host,
    rpc |-> RpcWsClient, pollTimer |-> NoTimer, polling |-> FALSE,
    snapshot |-> [name |-> name, connected |-> FALSE, lastError |-> "none",
                 lastDisconnected |-> << >>],
    polls |-> {}, out |-> << >>, stopped |-> FALSE ]

\* onUpdate(this.snapshot)
onUpdate(e) == [e EXCEPT !.out = Append(@, e.snapshot)]

clearPoll(e) == [e EXCEPT !.pollTimer = NoTimer]

schedulePoll(e, t) == [clearPoll(e) EXCEPT !.pollTimer = t + pollIntervalMs]

handleOpen(e, t) ==
  schedulePoll(
    onUpdate([e EXCEPT !.snapshot.connected = TRUE,
                       !.snapshot.lastError = "none"]),
    t)

\* reason: the close frame carried a non-empty reason
handleClose(e, reason) ==
  clearPoll(
    onUpdate([e EXCEPT
                !.snapshot.connected = FALSE,
                !.snapshot.lastError =
                   IF reason THEN "WS close"
                   ELSE IF @ # "none" THEN @ ELSE "WS closed"]))

\* (mutant) an error handler that treats the error as a close
handleError_closes(e) ==
  clearPoll(onUpdate([e EXCEPT !.snapshot.lastError = "ws error",
                               !.snapshot.connected = FALSE]))

handleError(e) == onUpdate([e EXCEPT !.snapshot.lastError = "ws error"])

\* start(): connect with the three handlers
start(e) == [e EXCEPT !.rpc = connect(@)]

stop(e, t) ==
  [clearPoll([e EXCEPT !.polling = FALSE, !.stopped = TRUE])
     EXCEPT !.rpc = disconnect(@, t)]

\* (mutant) a finally block that does not schedule the next poll
pollFinally_onceOnly(e, t) == onUpdate([e EXCEPT !.polling = FALSE])

\* poll(): the finally block
pollFinally(e, t) == schedulePoll(onUpdate([e EXCEPT !.polling = FALSE]), t)

\* poll(): the catch block, how being the rejection caught
pollCatch(e, how, t) ==
  pollFinally([e EXCEPT !.snapshot.lastError = how,
                        !.snapshot.connected = isConnected(e.rpc)], t)

\* poll(): the end of the try block
pollSuccess(e, t) ==
  pollFinally([e EXCEPT !.snapshot.connected = TRUE,
                        !.snapshot.lastError = "none"], t)

\* k calls in a row with the default timeout
RECURSIVE callN(_, _, _)
callN(c, k, t) ==
  IF k = 0 THEN c ELSE callN(call(c, defaultTimeoutMs, t, FALSE), k - 1, t)

\* (mutant) poll() as an interval: it re-arms its timer on entry and starts a
\* cycle without looking at the polling flag
pollBegin_interval(e, t) ==
  IF ~canSend(e.rpc) THEN schedulePoll(e, t)
  ELSE [schedulePoll(e, t) EXCEPT
          !.polling = TRUE,
          !.rpc = call(@, defaultTimeoutMs, t, FALSE),
          !.polls = @ \cup {[pc |-> "w1", wait |-> {e.rpc.idCounter},
                             fatal |-> {e.rpc.idCounter},
                             blockOk |-> FALSE]}]

\* poll() up to its first await
pollBegin(e, t) ==
  IF e.polling \/ ~isConnected(e.rpc) THEN schedulePoll(e, t)
  ELSE LET e1 == [e EXCEPT !.polling = TRUE]
       IN IF ~canSend(e.rpc) THEN pollCatch(e1, "WS not connected", t)
          ELSE [e1 EXCEPT
                  !.rpc = call(@, defaultTimeoutMs, t, FALSE),
                  !.polls = @ \cup {[pc |-> "w1", wait |-> {e.rpc.idCounter},
                                     fatal |-> {e.rpc.idCounter},
                                     blockOk |-> FALSE]}]

\* poll() resumed after the await of pl has been fulfilled
pollResume(e, pl, fin, t) ==
  LET i == e.rpc.idCounter
  IN CASE pl.pc = "w1" ->
            IF ~canSend(e.rpc) THEN pollCatch(e, "WS not connected", t)
            ELSE [e EXCEPT
                    !.rpc = callN(@, 5, t),
                    !.polls = @ \cup {[pc |-> "w2", wait |-> i..(i + 4),
                                       fatal |-> i..(i + 2), blockOk |-> fin]}]
       [] pl.pc = "w2" ->
            IF pl.blockOk /\ canSend(e.rpc)
              THEN [e EXCEPT
                      !.rpc = call(@, defaultTimeoutMs, t, FALSE),
                      !.polls = @ \cup {[pc |-> "w3", wait |-> {i},
                                         fatal |-> {}, blockOk |-> TRUE]}]
              ELSE pollSuccess(e, t)
       [] pl.pc = "w3" -> pollSuccess(e, t)

\* the promise reactions of one suspended poll() to what the handler settled
pollReact(e, pl, fin, t) ==
  LET mine == {x \in e.rpc.last : x.id \in pl.wait}
      bad == {x \in mine : x.id \in pl.fatal /\ x.how # "result"}
      rest == e.polls \ {pl}
  IN IF mine = {} THEN e
     ELSE IF bad # {}
       THEN pollCatch([e EXCEPT !.polls = rest],
                      (CHOOSE x \in bad : \A y \in bad : x.id <= y.id).how, t)
     ELSE IF pl.wait \ {x.id : x \in mine} # {}
       THEN [e EXCEPT !.polls =
               rest \cup {[pl EXCEPT !.wait = @ \ {x.id : x \in mine}]}]
     ELSE pollResume([e EXCEPT !.polls = rest], pl, fin, t)

\* the microtasks after a handler: every suspended poll() reacts
RECURSIVE microtasks(_, _, _, _)
microtasks(e, pls, fin, t) ==
  IF pls = {} THEN e
  ELSE LET pl == CHOOSE x \in pls : TRUE
       IN microtasks(pollReact(e, pl, fin, t), pls \ {pl}, fin, t)

react(e, fin, t) == microtasks(e, e.polls, fin, t)

\* a handler of the monitor starts with nothing settled or reported by it
beginNode(e) == [e EXCEPT !.rpc = begin(@), !.out = << >>]

\* the handlers of the monitor's socket events and timers
nodeOpen(e, s, t) ==
  handleOpen([e EXCEPT !.rpc = onOpen(sockTo(@, s, "open"))], t)

nodeMessage(e, id, shape, fin, t) ==
  react([e EXCEPT !.rpc = onMessage(@, id, shape)], fin, t)

nodeError(e, s) ==
  handleError([e EXCEPT !.rpc = onError(sockTo(@, s, "closing"))])

nodeClose(e, s, reason, t, jitter) ==
  react(handleClose([e EXCEPT !.rpc = onClose(sockTo(@, s, "closed"), t, jitter)],
                    reason),
        FALSE, t)

nodeFail(e, s, t, jitter) ==
  react(handleClose(
          handleError([e EXCEPT !.rpc = onClose(onError(sockTo(@, s, "closed")),
                                                 t, jitter)]),
          FALSE),
        FALSE, t)

nodeReconnect(e) ==
  [e EXCEPT !.rpc = connect([@ EXCEPT !.reconnectTimer = NoTimer])]

nodeTimeout(e, id, t) == react([e EXCEPT !.rpc = onTimeout(@, id)], FALSE, t)

nodePoll(e, t) == pollBegin(clearPoll(e), t)

\* the armed timers of a monitor
nodeDeadlines(e) ==
  deadlines(e.rpc) \cup (IF e.pollTimer # NoTimer THEN {e.pollTimer} ELSE {})

\* the answers a node gives to a request: a result or an error object
NodeMsgShapes == {"result", "error"}

\* ------------------------------------------------- NodeEntry: the metrics
(* The metrics a poll cycle writes.  An optional number is << >> when      *)
(* undefined or NaN and <<x>> when it is x.  A hexadecimal string is the   *)
(* sequence of its characters after the 0x prefix: 0..15 are the hex       *)
(* digits and 16 is any other character.  meter is a record:               *)
(*   latestBlock, peerCount, mining, gasPriceGwei, gasUsed, gasLimit,      *)
(*   blockTimeMs, blockTimeAvgMs    fields of the snapshot; gasPriceGwei   *)
(*       <<x>> is x / 1e9 and blockTimeAvgMs <<s, n>> is s / n             *)
(*   lastBlockTimestampSec, timesWindow    fields of the NodeEntry         *)
(*   failed     the latest cycle ran its catch block                       *)
(*   seen       every sample pushed into timesWindow so far, in order      *)
(*   asked      the answers the latest cycle got                           *)
(***************************************************************************)
windowCapacity == 10

NotHex == 16

\* parseInt(s, 16): the leading hex digits of s, NaN when there is none
RECURSIVE parseHex(_, _)
parseHex(ds, acc) ==
  IF ds = << >> \/ Head(ds) = NotHex THEN acc
  ELSE parseHex(Tail(ds),
                <<(IF acc = << >> THEN 0 ELSE acc[1]) * 16 + Head(ds)>>)

parseInt16(ds) == parseHex(ds, << >>)

\* the hexadecimal quantity a node answers for the number n
RECURSIVE hexOf(_)
hexOf(n) == IF n < 16 THEN <<n>> ELSE Append(hexOf(n \div 16), n % 16)

\* timesWindow.reduce((a, b) => a + b, 0)
RECURSIVE sumOf(_)
sumOf(w) == IF w = << >> THEN 0 ELSE Head(w) + sumOf(Tail(w))

NoAnswers ==
  [blockNumber |-> [ok |-> FALSE, hex |-> << >>],
   peerCount |-> [ok |-> FALSE, hex |-> << >>],
   mining |-> [ok |-> FALSE, val |-> FALSE],
   gasPrice |-> [ok |-> FALSE, hex |-> << >>],
   block |-> [ok |-> FALSE, obj |-> FALSE, timestamp |-> << >>,
              gasUsed |-> << >>, gasLimit |-> << >>]]

Meter ==
  [latestBlock |-> << >>, peerCount |-> << >>, mining |-> << >>,
   gasPriceGwei |-> << >>, gasUsed |-> << >>, gasLimit |-> << >>,
   blockTimeMs |-> << >>, blockTimeAvgMs |-> << >>,
   lastBlockTimestampSec |-> << >>, timesWindow |-> << >>,
   failed |-> FALSE, seen |-> << >>, asked |-> NoAnswers]

\* (mutant) a full window drops its second sample, not its first
pushSample_evictSecond(w, dt) ==
  IF Len(w) + 1 > windowCapacity
    THEN <<Head(w)>> \o SubSeq(w, 3, Len(w)) \o <<dt>>
    ELSE Append(w, dt)

\* timesWindow.push(dt); if (timesWindow.length > 10) timesWindow.shift()
pushSample(w, dt) ==
  IF Len(w) + 1 > windowCapacity THEN Tail(Append(w, dt)) ELSE Append(w, dt)

\* (mutant) the sample is taken whenever a timestamp was seen before
blockTimes_always(m, tsSec) ==
  LET dt == (tsSec - m.lastBlockTimestampSec[1]) * 1000
      m1 == IF m.lastBlockTimestampSec # << >>
              THEN [m EXCEPT !.blockTimeMs = <<dt>>,
                             !.timesWindow = pushSample(@, dt),
                             !.seen = Append(@, dt)]
              ELSE m
  IN [m1 EXCEPT
        !.lastBlockTimestampSec = <<tsSec>>,
        !.blockTimeAvgMs =
           IF m1.timesWindow # << >>
             THEN <<sumOf(m1.timesWindow), Len(m1.timesWindow)>> ELSE @]

\* poll(): the block-time part, for a truthy tsSec
blockTimes(m, tsSec) ==
  LET dt == (tsSec - m.lastBlockTimestampSec[1]) * 1000
      m1 == IF m.lastBlockTimestampSec # << >>
               /\ tsSec > m.lastBlockTimestampSec[1]
              THEN [m EXCEPT !.blockTimeMs = <<dt>>,
                             !.timesWindow = pushSample(@, dt),
                             !.seen = Append(@, dt)]
              ELSE m
  IN [m1 EXCEPT
        !.lastBlockTimestampSec = <<tsSec>>,
        !.blockTimeAvgMs =
           IF m1.timesWindow # << >>
             THEN <<sumOf(m1.timesWindow), Len(m1.timesWindow)>> ELSE @]

\* keep(parsed, old): Number.isFinite(parsed) ? parsed : old
keep(parsed, old) == IF parsed # << >> THEN parsed ELSE old

\* poll(): what it does with the block object b
blockData(m, b) ==
  LET parsed == parseInt16(b.timestamp)
      tsSec == IF parsed = << >> \/ parsed[1] = 0 THEN << >> ELSE parsed
      m1 == [m EXCEPT !.gasUsed = keep(parseInt16(b.gasUsed), @),
                      !.gasLimit = keep(parseInt16(b.gasLimit), @)]
  IN IF tsSec = << >> THEN m1 ELSE blockTimes(m1, tsSec[1])

\* poll(): the metrics written by one cycle that got the answers a; a
\* rejected eth_blockNumber or metric probe other than eth_mining and
\* eth_gasPrice ends the cycle in its catch block
pollData(m, a) ==
  IF ~a.blockNumber.ok \/ ~a.peerCount.ok THEN [m EXCEPT !.failed = TRUE]
  ELSE LET latestBlock == parseInt16(a.blockNumber.hex)
           gasPrice == parseInt16(IF a.gasPrice.ok THEN a.gasPrice.hex ELSE <<0>>)
           m1 == [m EXCEPT
                    !.latestBlock = keep(latestBlock, @),
                    !.peerCount = keep(parseInt16(a.peerCount.hex), @),
                    !.mining = <<IF a.mining.ok THEN a.mining.val ELSE FALSE>>,
                    !.gasPriceGwei = gasPrice,
                    !.failed = FALSE]
       IN IF latestBlock # << >> /\ a.block.ok /\ a.block.obj
            THEN blockData(m1, a.block) ELSE m1

\* the answers to a probe whose result is a hexadecimal quantity: rejected,
\* a string that is no number, or the number v
HexAnswers(v) ==
  {[ok |-> FALSE, hex |-> << >>], [ok |-> TRUE, hex |-> <<NotHex>>],
   [ok |-> TRUE, hex |-> hexOf(v)]}

MiningAnswers ==
  {[ok |-> FALSE, val |-> FALSE], [ok |-> TRUE, val |-> TRUE],
   [ok |-> TRUE, val |-> FALSE]}

\* eth_getBlockByNumber: rejected or not asked, null, or a block whose
\* fields all parse or all do not
BlockAnswers ==
  {NoAnswers.block,
   [ok |-> TRUE, obj |-> FALSE, timestamp |-> << >>, gasUsed |-> << >>,
    gasLimit |-> << >>],
   [ok |-> TRUE, obj |-> TRUE, timestamp |-> hexOf(100), gasUsed |-> hexOf(5),
    gasLimit |-> hexOf(9)],
   [ok |-> TRUE, obj |-> TRUE, timestamp |-> <<NotHex>>,
    gasUsed |-> <<NotHex>>, gasLimit |-> <<NotHex>>]}

\* the answers one cycle can get: a probe that poll() does not reach is
\* not answered
ProbeCases ==
  {a \in [blockNumber : HexAnswers(7), peerCount : HexAnswers(3),
          mining : MiningAnswers, gasPrice : HexAnswers(2),
          block : BlockAnswers] :
     /\ ~a.blockNumber.ok =>
          /\ a.peerCount = NoAnswers.peerCount
          /\ a.mining = NoAnswers.mining
          /\ a.gasPrice = NoAnswers.gasPrice
     /\ (~a.blockNumber.ok \/ ~a.peerCount.ok
            \/ parseInt16(a.blockNumber.hex) = << >>)
          => a.block = NoAnswers.block}

\* the timestamps of the blocks a node may answer next: the first one, or
\* the one seen last, one 1 s or 12 s newer, or one 1 s older when no
\* older one was answered before
NextTimes(m) ==
  IF m.lastBlockTimestampSec = << >> THEN {100}
  ELSE LET last == m.lastBlockTimestampSec[1]
       IN {last} \cup {last + d : d \in IF Len(m.seen) < MaxSamples
                                          THEN {1, 12} ELSE {}}
            \cup (IF last * 1000 = 100000 + sumOf(m.seen) THEN {last - 1} ELSE {})

\* the answers of a cycle whose probes all succeed, by the block answered
BlockCases(m) ==
  {[blockNumber |-> [ok |-> TRUE, hex |-> hexOf(7)],
    peerCount |-> [ok |-> TRUE, hex |-> hexOf(3)],
    mining |-> [ok |-> TRUE, val |-> TRUE],
    gasPrice |-> [ok |-> TRUE, hex |-> hexOf(2)],
    block |-> b] :
     b \in {NoAnswers.block}
            \cup {[ok |-> TRUE, obj |-> TRUE, timestamp |-> t,
                   gasUsed |-> hexOf(5), gasLimit |-> hexOf(9)] :
                    t \in {<<NotHex>>, <<0>>}
                           \cup {hexOf(x) : x \in NextTimes(m)}}}

\* ---------------------------------------------------------------- Registry
(* The Registry is a record:                                               *)
(*   nodes      the map: per name the monitor registered, 0 for none       *)
(*   entries    every NodeEntry constructed so far, in order of creation   *)
(*   grace      the armed timers of upsert on an existing name, in the     *)
(*              order they were armed: [name, host, at, old], old being    *)
(*              the monitor the upsert found and stopped                   *)
(*   persisted  the list last written to the nodes file                    *)
(*   origin     per monitor, the monitor it was created to replace, 0 for  *)
(*              a monitor created under a free name                        *)
(*   listeners  the Set of listeners, in insertion order                   *)
(*   delivered  the calls l(s) made since the latest handler began, in     *)
(*              order: [to, of, s], s being the value, at the call, of the *)
(*              snapshot object of monitor of, which is what l was handed  *)
(*   caught     the listeners whose exception emit caught since then       *)
(*   escaped    an exception of a listener left emit since then            *)
(*   ret        << >>, or <<name, v>> when the latest handler was          *)
(*              remove(name): v is "true" or "false", the value returned,  *)
(*              or "threw" when remove ended with an exception             *)
(*   threw      "none", or which of "upsert" and "timer" (the callback of  *)
(*              upsert's timer) the latest handler was when it ended with  *)
(*              an exception                                               *)
(***************************************************************************)
Registry ==
  [ nodes |-> [n \in Names |-> 0], entries |-> << >>, grace |-> << >>,
    persisted |-> {}, origin |-> << >>,
    listeners |-> << >>, delivered |-> << >>, caught |-> {},
    escaped |-> FALSE, ret |-> << >>, threw |-> "none" ]

Listeners == {"l1", "l2"}

Range(q) == {q[k] : k \in DOMAIN q}

\* this.listeners.add(fn): a Set keeps the first insertion of a member
addListener(r, l) ==
  IF l \in Range(r.listeners) THEN r
  ELSE [r EXCEPT !.listeners = Append(@, l)]

\* the function addListener returned: this.listeners.delete(fn)
unsubscribe(r, l) ==
  [r EXCEPT !.listeners = SelectSeq(@, LAMBDA x : x # l)]

\* emit without the try/catch: the first exception ends the loop
RECURSIVE emitTo_untilThrow(_, _, _, _, _)
emitTo_untilThrow(r, ls, i, s, throws) ==
  IF ls = << >> THEN r
  ELSE LET d == [r EXCEPT !.delivered =
                    Append(@, [to |-> Head(ls), of |-> i, s |-> s])] IN
       IF Head(ls) \in throws THEN [d EXCEPT !.escaped = TRUE]
       ELSE emitTo_untilThrow(d, Tail(ls), i, s, throws)

\* the loop of emit over the listeners ls still to call, for the snapshot
\* of monitor i whose value is s; the listeners in throws throw
RECURSIVE emitTo(_, _, _, _, _)
emitTo(r, ls, i, s, throws) ==
  IF ls = << >> THEN r
  ELSE emitTo([r EXCEPT
                 !.delivered = Append(@, [to |-> Head(ls), of |-> i, s |-> s]),
                 !.caught = IF Head(ls) \in throws
                            THEN @ \cup {Head(ls)} ELSE @],
              Tail(ls), i, s, throws)

emit(r, i, s, throws) == emitTo(r, r.listeners, i, s, throws)

\* the calls onUpdate(this.snapshot) of one handler of monitor i, in order
RECURSIVE emitEach(_, _, _, _)
emitEach(r, i, out, throws) ==
  IF out = << >> THEN r
  ELSE emitEach(emit(r, i, Head(out), throws), i, Tail(out), throws)

getPersistedList(r) ==
  {[name |-> r.entries[r.nodes[n]].name, host |-> r.entries[r.nodes[n]].host] :
     n \in {m \in Names : r.nodes[m] # 0}}

persist_keepsFile(r) == r

persist(r) == [r EXCEPT !.persisted = getPersistedList(r)]

\* the names of the snapshots list() returns
listNames(r) ==
  {r.entries[r.nodes[n]].snapshot.name : n \in {m \in Names : r.nodes[m] # 0}}

\* new NodeEntry(...); nodes.set(name, entry); entry.start(...); persist()
register(r, name, host, old) ==
  persist([r EXCEPT !.entries = Append(@, start(NodeEntry(name, host))),
                    !.nodes[name] = Len(r.entries) + 1,
                    !.origin = Append(@, old)])

upsert(r, name, host, t) ==
  IF r.nodes[name] # 0
    THEN [r EXCEPT !.entries[r.nodes[name]] = stop(@, t),
                   !.grace = Append(@, [name |-> name, host |-> host,
                                        at |-> t + graceMs,
                                        old |-> r.nodes[name]])]
    ELSE register(r, name, host, 0)

\* the callback of the timer upsert armed
upsertLater(r) ==
  register([r EXCEPT !.grace = Tail(@)], Head(r.grace).name,
           Head(r.grace).host, Head(r.grace).old)

\* the same three when writeJsonAtomic throws: the file is as it was, and
\* the exception leaves persist() and the function that called it
registerUnwritten(r, name, host, old, where) ==
  [r EXCEPT !.entries = Append(@, start(NodeEntry(name, host))),
            !.nodes[name] = Len(r.entries) + 1,
            !.origin = Append(@, old),
            !.threw = where]

upsertUnwritten(r, name, host, t) ==
  IF r.nodes[name] # 0 THEN upsert(r, name, host, t)
  ELSE registerUnwritten(r, name, host, 0, "upsert")

upsertLaterUnwritten(r) ==
  registerUnwritten([r EXCEPT !.grace = Tail(@)], Head(r.grace).name,
                    Head(r.grace).host, Head(r.grace).old, "timer")

remove_keepsEntry(r, name, t) ==
  IF r.nodes[name] = 0 THEN r
  ELSE persist([r EXCEPT !.entries[r.nodes[name]] = stop(@, t)])

remove(r, name, t) ==
  IF r.nodes[name] = 0 THEN [r EXCEPT !.ret = <<name, "false">>]
  ELSE persist([r EXCEPT !.entries[r.nodes[name]] = stop(@, t),
                         !.nodes[name] = 0,
                         !.ret = <<name, "true">>])

\* remove(name) when writeJsonAtomic throws: the file is as it was, and the
\* exception leaves persist() and remove()
removeUnwritten(r, name, t) ==
  IF r.nodes[name] = 0 THEN [r EXCEPT !.ret = <<name, "false">>]
  ELSE [r EXCEPT !.entries[r.nodes[name]] = stop(@, t),
                 !.nodes[name] = 0,
                 !.ret = <<name, "threw">>]

\* a handler of the Registry or of one monitor starts
beginReg(r) ==
  [r EXCEPT !.entries = [i \in DOMAIN r.entries |-> beginNode(r.entries[i])],
            !.delivered = << >>, !.caught = {}, !.escaped = FALSE,
            !.ret = << >>, !.threw = "none"]

\* the monitors whose handler passed an update to emit
emitters(r) == {i \in DOMAIN r.entries : r.entries[i].out # << >>}

\* the armed timers of the Registry and its monitors
regDeadlines(r) ==
  UNION {nodeDeadlines(r.entries[i]) : i \in DOMAIN r.entries}
    \cup {r.grace[k].at : k \in DOMAIN r.grace}

\* The Registry's clock is kept relative: when d ms pass, every time a
\* monitor holds moves d ms toward the past and the clock reads 0 again.
later(c, d) ==
  [c EXCEPT
     !.reconnectTimer = IF @ = NoTimer THEN @ ELSE @ - d,
     !.timeouts = {[x EXCEPT !.at = @ - d] : x \in @},
     !.pending = {[x EXCEPT !.createdAt = @ - d] : x \in @}]

nodeLater(e, d) ==
  [e EXCEPT !.pollTimer = IF @ = NoTimer THEN @ ELSE @ - d,
            !.snapshot.lastDisconnected =
               IF @ = << >> THEN @ ELSE <<@[1] - d>>,
            !.rpc = later(@, d)]

regLater(r, d) ==
  [r EXCEPT
     !.entries = [i \in DOMAIN r.entries |-> nodeLater(r.entries[i], d)],
     !.grace = [k \in DOMAIN r.grace |-> [r.grace[k] EXCEPT !.at = @ - d]]]

\* ------------------------------------------------ Registry: the queries
(* The queries read, of each monitor in the map, the fields name,          *)
(* connected, latencyMs, lastUpdated and latestBlock of its snapshot.  An  *)
(* optional number is << >> when undefined and <<x>> when it is x.  The    *)
(* map is given as the sequence of its values() in insertion order.        *)
ListedNames == {"a", "B"}
LatencyChoices == {<< >>, <<0 - 5>>, <<10>>, <<20>>}
UpdatedChoices == {<< >>, <<1>>, <<2>>}
BlockChoices == {<< >>, <<7>>, <<8>>}

\* the snapshots a monitor can hold: the handlers that set connected to
\* true set lastUpdated, and poll() sets latestBlock along with latencyMs
\* and lastUpdated after them
Snapshots ==
  {s \in [name : ListedNames, connected : BOOLEAN,
           latencyMs : LatencyChoices, lastUpdated : UpdatedChoices,
           latestBlock : BlockChoices] :
     /\ s.connected => s.lastUpdated # << >>
     /\ s.latencyMs # << >> => s.lastUpdated # << >>
     /\ s.latestBlock # << >> => s.latencyMs # << >>}

\* the maps of at most one monitor per name
Maps ==
  {<< >>} \cup {<<s>> : s \in Snapshots}
    \cup {x \in Snapshots \X Snapshots : x[1].name # x[2].name}

View == [snaps |-> << >>, op |-> "none", res |-> << >>]

\* Number.POSITIVE_INFINITY, above every number of the model
Infinity == 1000000

\* String.prototype.localeCompare on the names of the model: the collation
\* puts "a" before "B", the code units put "B" before "a"
localeCompare(x, y) ==
  LET key == [n \in ListedNames |-> IF n = "a" THEN 1 ELSE 2]
  IN key[x] - key[y]

\* the comparator of list() with the older lastUpdated first
compare_oldestFirst(a, b) ==
  LET ac == IF a.connected THEN 0 ELSE 1
      bc == IF b.connected THEN 0 ELSE 1
      al == IF a.latencyMs # << >> /\ a.latencyMs[1] >= 0
            THEN a.latencyMs[1] ELSE Infinity
      bl == IF b.latencyMs # << >> /\ b.latencyMs[1] >= 0
            THEN b.latencyMs[1] ELSE Infinity
      au == IF a.lastUpdated # << >> THEN a.lastUpdated[1] ELSE 0 - Infinity
      bu == IF b.lastUpdated # << >> THEN b.lastUpdated[1] ELSE 0 - Infinity
  IN IF ac # bc THEN ac - bc
     ELSE IF al # bl THEN al - bl
     ELSE IF au # bu THEN au - bu
     ELSE localeCompare(a.name, b.name)

\* the comparator of list()
compare(a, b) ==
  LET ac == IF a.connected THEN 0 ELSE 1
      bc == IF b.connected THEN 0 ELSE 1
      al == IF a.latencyMs # << >> /\ a.latencyMs[1] >= 0
            THEN a.latencyMs[1] ELSE Infinity
      bl == IF b.latencyMs # << >> /\ b.latencyMs[1] >= 0
            THEN b.latencyMs[1] ELSE Infinity
      au == IF a.lastUpdated # << >> THEN a.lastUpdated[1] ELSE 0 - Infinity
      bu == IF b.lastUpdated # << >> THEN b.lastUpdated[1] ELSE 0 - Infinity
  IN IF ac # bc THEN ac - bc
     ELSE IF al # bl THEN al - bl
     ELSE IF au # bu THEN bu - au
     ELSE localeCompare(a.name, b.name)

\* Array.prototype.sort is stable: x, which came after every element of
\* sorted, goes behind the elements it does not sort before
RECURSIVE insertSorted(_, _)
insertSorted(sorted, x) ==
  IF sorted = << >> THEN <<x>>
  ELSE IF compare(Head(sorted), x) <= 0
       THEN <<Head(sorted)>> \o insertSorted(Tail(sorted), x)
       ELSE <<x>> \o sorted

RECURSIVE sortSnapshots(_, _)
sortSnapshots(sorted, rest) ==
  IF rest = << >> THEN sorted
  ELSE sortSnapshots(insertSorted(sorted, Head(rest)), Tail(rest))

\* list(): Array.from(this.nodes.values()).map((n) => n.snapshot), sorted
list(snaps) == sortSnapshots(<< >>, snaps)

\* The get...Connected queries return a NodeEntry or undefined: <<k>> for
\* the k-th monitor of the map, << >> for undefined.
RECURSIVE firstConnectedFrom(_, _)
firstConnectedFrom(snaps, k) ==
  IF k > Len(snaps) THEN << >>
  ELSE IF snaps[k].connected THEN <<k>>
  ELSE firstConnectedFrom(snaps, k + 1)

getFirstConnected(snaps) == firstConnectedFrom(snaps, 1)

getMostAdvancedConnected_first(snaps) == getFirstConnected(snaps)

\* the loop of getMostAdvancedConnected from the k-th monitor on
RECURSIVE mostAdvancedFrom(_, _, _)
mostAdvancedFrom(snaps, k, acc) ==
  IF k > Len(snaps) THEN acc
  ELSE LET s == snaps[k]
           lb == IF s.latestBlock # << >> THEN s.latestBlock[1]
                 ELSE 0 - Infinity
           lu == IF s.lastUpdated # << >> THEN s.lastUpdated[1]
                 ELSE 0 - Infinity
       IN IF ~s.connected THEN mostAdvancedFrom(snaps, k + 1, acc)
          ELSE IF \/ lb > acc.bestBlock
                  \/ lb = acc.bestBlock /\ lu > acc.bestUpdated
            THEN mostAdvancedFrom(snaps, k + 1,
                   [best |-> <<k>>, bestBlock |-> lb, bestUpdated |-> lu])
            ELSE mostAdvancedFrom(snaps, k + 1, acc)

getMostAdvancedConnected(snaps) ==
  LET acc == mostAdvancedFrom(snaps, 1,
               [best |-> << >>, bestBlock |-> 0 - Infinity,
                bestUpdated |-> 0 - Infinity])
  IN IF acc.best # << >> THEN acc.best ELSE getFirstConnected(snaps)

getLowestLatencyConnected_first(snaps) == getFirstConnected(snaps)

\* the loop of getLowestLatencyConnected from the k-th monitor on
RECURSIVE lowestLatencyFrom(_, _, _)
lowestLatencyFrom(snaps, k, acc) ==
  IF k > Len(snaps) THEN acc
  ELSE LET s == snaps[k]
           lat == IF s.latencyMs # << >> /\ s.latencyMs[1] >= 0
                  THEN s.latencyMs[1] ELSE Infinity
           lu == IF s.lastUpdated # << >> THEN s.lastUpdated[1]
                 ELSE 0 - Infinity
       IN IF ~s.connected THEN lowestLatencyFrom(snaps, k + 1, acc)
          ELSE IF \/ lat < acc.bestLatency
                  \/ lat = acc.bestLatency /\ lu > acc.bestUpdated
            THEN lowestLatencyFrom(snaps, k + 1,
                   [best |-> <<k>>, bestLatency |-> lat, bestUpdated |-> lu])
            ELSE lowestLatencyFrom(snaps, k + 1, acc)

getLowestLatencyConnected(snaps) ==
  LET acc == lowestLatencyFrom(snaps, 1,
               [best |-> << >>, bestLatency |-> Infinity,
                bestUpdated |-> 0 - Infinity])
  IN IF acc.best # << >> THEN acc.best ELSE getFirstConnected(snaps)

\* -------------------------------------------- Registry: the nodes file
(* The file holds JSON.stringify({ nodes }).  A JSON value read back is    *)
(* << >> for null or a missing key and <<v>> for the string or number v.   *)
StoredNames == {"a", "b"}
StoredHosts == {"h1", "ws://h2"}
PortChoices == {1, 8545, 65535}

\* the monitors as getPersistedList reads them: name, host and the two
\* ports, which validatePort keeps to integers from 1 to 65535
StoredNodes ==
  [name : StoredNames, host : StoredHosts, rpcPort : PortChoices,
   wsRpcPort : PortChoices]

StoredMaps ==
  {<< >>} \cup {<<n>> : n \in StoredNodes}
    \cup {x \in StoredNodes \X StoredNodes : x[1].name # x[2].name}

\* getPersistedList() and JSON.stringify of a map given by its values()
stringify(entries) ==
  [nodes |-> [k \in DOMAIN entries |->
                [name |-> <<entries[k].name>>, host |-> <<entries[k].host>>,
                 rpcPort |-> <<entries[k].rpcPort>>,
                 wsRpcPort |-> <<entries[k].wsRpcPort>>]]]

\* loadPersistedNodes() reading every port as its default
loadPersistedNodes_defaultPorts(file) ==
  LET read == [k \in DOMAIN file.nodes |->
                 [name |-> IF file.nodes[k].name = << >> THEN ""
                           ELSE file.nodes[k].name[1],
                  host |-> IF file.nodes[k].host = << >> THEN ""
                           ELSE file.nodes[k].host[1],
                  rpcPort |-> 8545, wsRpcPort |-> 8546]]
  IN SelectSeq(read, LAMBDA n : n.name # "" /\ n.host # "")

\* loadPersistedNodes() of a file that exists and parses: String(x || '')
\* of the strings, Number(x || default) of the ports, then the filter
loadPersistedNodes(file) ==
  LET port(j, default) ==
        IF j = << >> \/ j[1] = 0 THEN default ELSE j[1]
      read == [k \in DOMAIN file.nodes |->
                 [name |-> IF file.nodes[k].name = << >> THEN ""
                           ELSE file.nodes[k].name[1],
                  host |-> IF file.nodes[k].host = << >> THEN ""
                           ELSE file.nodes[k].host[1],
                  rpcPort |-> port(file.nodes[k].rpcPort, 8545),
                  wsRpcPort |-> port(file.nodes[k].wsRpcPort, 8546)]]
  IN SelectSeq(read, LAMBDA n : n.name # "" /\ n.host # "")

\* ------------------------------------------ StatsServer: the offline sweeper
\* config.offlineUnsubscribeMs and config.offlineSweepIntervalMs are read from
\* the environment (OFFLINE_UNSUBSCRIBE_MS, OFFLINE_SWEEP_INTERVAL_MS); the
\* model runs with both set to a few seconds.
offlineUnsubscribeMs == 2000
offlineSweepIntervalMs == 16000

\* sweepAt is the next tick of the setInterval, NoTimer while the server
\* has not been constructed.  Ghosts: sweeps counts the ticks run; down holds,
\* per monitor whose connection dropped and has not opened since, the time
\* of the drop; listed is what registry.list() gave the latest tick, removed
\* and broadcast are what that tick removed and whether it called
\* broadcastSnapshot().
Server ==
  [sweepAt |-> NoTimer, sweeps |-> 0, down |-> {}, listed |-> {},
   removed |-> {}, broadcast |-> FALSE]

\* the body of the loop for the listed snapshot named name, ignoring the
\* age test
sweepOne_anyOffline(r, name, t) ==
  LET n == r.entries[r.nodes[name]].snapshot IN
  IF ~n.connected THEN remove(r, n.name, t) ELSE r

\* the body of the loop over registry.list() for the snapshot named name
sweepOne(r, name, t) ==
  LET n == r.entries[r.nodes[name]].snapshot IN
  IF ~n.connected
  THEN IF n.lastDisconnected # << >>
       THEN IF t - n.lastDisconnected[1] > offlineUnsubscribeMs
            THEN remove(r, n.name, t)
            ELSE r
       ELSE r
  ELSE r

RECURSIVE sweepAll(_, _, _)
sweepAll(r, names, t) ==
  IF names = {} THEN r
  ELSE LET n == CHOOSE x \in names : TRUE IN
       sweepAll(sweepOne(r, n, t), names \ {n}, t)

\* for (const n of this.registry.list()) { ... }
sweep(r, t) == sweepAll(r, listNames(r), t)

\* the ghost down after a handler of monitor i turned it from old to e
noted(sv, i, old, e) ==
  IF sv.sweepAt = NoTimer THEN sv
  ELSE [sv EXCEPT !.down =
          IF old.rpc.connected /\ ~e.rpc.connected
          THEN {x \in @ : x.i # i} \cup {[i |-> i, at |-> 0]}
          ELSE IF e.rpc.connected THEN {x \in @ : x.i # i} ELSE @]

\* d ms pass; a drop is remembered up to one interval past the limit
serverLater(sv, d) ==
  [sv EXCEPT
     !.sweepAt = IF @ = NoTimer THEN @ ELSE @ - d,
     !.down = {[i |-> x.i,
                at |-> IF x.at - d < 0 - (offlineUnsubscribeMs
                                            + offlineSweepIntervalMs)
                       THEN 0 - (offlineUnsubscribeMs + offlineSweepIntervalMs)
                       ELSE x.at - d] : x \in @}]

\* the armed timers of the server, its Registry and the monitors
serverDeadlines(sv, r) ==
  regDeadlines(r) \cup (IF sv.sweepAt = NoTimer THEN {} ELSE {sv.sweepAt})

\* ------------------------------------------- one RpcWsClient and its callers
InitRpc ==
  /\ now = 0
  /\ rpc = RpcWsClient
  /\ ev = "init"
  /\ disc = FALSE
  /\ node = NodeEntry("a", "h1")
  /\ reg = Registry
  /\ heard = {}
  /\ hist = [n \in Names |-> "never"]
  /\ events = 0
  /\ delays = << >>
  /\ server = Server
  /\ view = View
  /\ meter = Meter

Connect ==
  /\ connectBlocked(rpc) \/ inBudget(rpc)
  /\ rpc' = connect(begin(rpc))
  /\ ev' = "connect"
  /\ disc' = (disc /\ connectBlocked(rpc))
  /\ UNCHANGED <<now, node, reg, heard, hist, events, delays, server, view, meter>>

Disconnect ==
  /\ rpc' = disconnect(begin(rpc), now)
  /\ ev' = "disconnect"
  /\ disc' = TRUE
  /\ UNCHANGED <<now, node, reg, heard, hist, events, delays, server, view, meter>>

Call ==
  /\ canSend(rpc)
  /\ inBudget(rpc)
  /\ \E timeoutMs \in TimeoutChoices, sendThrows \in BOOLEAN :
       rpc' = call(begin(rpc), timeoutMs, now, sendThrows)
  /\ ev' = "call"
  /\ UNCHANGED <<now, disc, node, reg, heard, hist, events, delays, server, view, meter>>

CleanupOldRequests ==
  /\ rpc' = cleanupOldRequests(begin(rpc), now)
  /\ ev' = "cleanup"
  /\ UNCHANGED <<now, disc, node, reg, heard, hist, events, delays, server, view, meter>>

\* 'open' of socket s
SockOpen ==
  \E s \in 1..Len(rpc.socks) :
    /\ rpc.socks[s] = "connecting"
    /\ rpc' = onOpen(sockTo(begin(rpc), s, "open"))
    /\ ev' = "open"
    /\ UNCHANGED <<now, disc, node, reg, heard, hist, events, delays, server, view, meter>>

\* 'message' on an open socket
SockMessage ==
  \E id \in 0..rpc.idCounter, shape \in MsgShapes :
    /\ \E s \in 1..Len(rpc.socks) : rpc.socks[s] = "open"
    /\ rpc' = onMessage(begin(rpc), id, shape)
    /\ ev' = "message"
    /\ UNCHANGED <<now, disc, node, reg, heard, hist, events, delays, server, view, meter>>

\* a failed or aborted handshake of socket s: 'error', then 'close'
SockFail ==
  \E s \in 1..Len(rpc.socks), jitter \in JitterChoices :
    /\ rpc.socks[s] \in {"connecting", "aborting"}
    /\ rpc' = onClose(onError(sockTo(begin(rpc), s, "closed")), now, jitter)
    /\ ev' = "close"
    /\ UNCHANGED <<now, disc, node, reg, heard, hist, events, delays, server, view, meter>>

\* 'error' on the open socket s; its 'close' follows
SockError ==
  \E s \in 1..Len(rpc.socks) :
    /\ rpc.socks[s] = "open"
    /\ rpc' = onError(sockTo(begin(rpc), s, "closing"))
    /\ ev' = "error"
    /\ UNCHANGED <<now, disc, node, reg, heard, hist, events, delays, server, view, meter>>

\* 'close' of socket s
SockClose ==
  \E s \in 1..Len(rpc.socks), jitter \in JitterChoices :
    /\ rpc.socks[s] \in {"open", "closing"}
    /\ rpc' = onClose(sockTo(begin(rpc), s, "closed"), now, jitter)
    /\ ev' = "close"
    /\ UNCHANGED <<now, disc, node, reg, heard, hist, events, delays, server, view, meter>>

\* the reconnect timer's callback: connect()
ReconnectFire ==
  /\ rpc.reconnectTimer # NoTimer
  /\ now >= rpc.reconnectTimer
  /\ connectBlocked(rpc) \/ inBudget(rpc)
  /\ rpc' = connect([begin(rpc) EXCEPT !.reconnectTimer = NoTimer])
  /\ ev' = "reconnect"
  /\ UNCHANGED <<now, disc, node, reg, heard, hist, events, delays, server, view, meter>>

\* the timer of request x
TimeoutFire ==
  \E x \in rpc.timeouts :
    /\ now >= x.at
    /\ rpc' = onTimeout(begin(rpc), x.id)
    /\ ev' = "timeout"
    /\ UNCHANGED <<now, disc, node, reg, heard, hist, events, delays, server, view, meter>>

TickRpc ==
  \E t \in deadlines(rpc) \cup {now + d : d \in TickSteps} :
    /\ t > now
    /\ t <= MaxTime
    /\ \A d \in deadlines(rpc) : t <= d
    /\ now' = t
    /\ rpc' = begin(rpc)
    /\ ev' = "tick"
    /\ UNCHANGED <<disc, node, reg, heard, hist, events, delays, server, view, meter>>

NextRpc ==
  \/ Connect \/ Disconnect \/ Call \/ CleanupOldRequests
  \/ SockOpen \/ SockMessage \/ SockFail \/ SockError \/ SockClose
  \/ ReconnectFire \/ TimeoutFire \/ TickRpc

vars ==
  <<now, rpc, ev, disc, node, reg, heard, hist, events, delays, server, view,
    meter>>

SpecRpc == InitRpc /\ [][NextRpc]_vars

\* the event loop runs a due timer callback, and time passes
FairSpecRpc ==
  /\ SpecRpc
  /\ WF_vars(TickRpc)
  /\ WF_vars(ReconnectFire)
  /\ WF_vars(TimeoutFire)

\* ------------------------------------------------ one NodeEntry on its own
InitNode ==
  /\ now = 0
  /\ rpc = RpcWsClient
  /\ ev = "init"
  /\ disc = FALSE
  /\ node = NodeEntry("a", "h1")
  /\ reg = Registry
  /\ heard = {}
  /\ hist = [n \in Names |-> "never"]
  /\ events = 0
  /\ delays = << >>
  /\ server = Server
  /\ view = View
  /\ meter = Meter

NodeStart ==
  /\ ev = "init"
  /\ node' = start(beginNode(node))
  /\ ev' = "start"
  /\ UNCHANGED <<now, rpc, disc, reg, heard, hist, events, delays, server, view, meter>>

NodeStop ==
  /\ ev # "init"
  /\ node' = stop(beginNode(node), now)
  /\ ev' = "stop"
  /\ UNCHANGED <<now, rpc, disc, reg, heard, hist, events, delays, server, view, meter>>

NodeSockOpen ==
  \E s \in 1..Len(node.rpc.socks) :
    /\ node.rpc.socks[s] = "connecting"
    /\ node' = nodeOpen(beginNode(node), s, now)
    /\ ev' = "open"
    /\ UNCHANGED <<now, rpc, disc, reg, heard, hist, events, delays, server, view, meter>>

NodeSockMessage ==
  \E id \in pendingIds(node.rpc), shape \in NodeMsgShapes, fin \in BOOLEAN :
    /\ \E s \in 1..Len(node.rpc.socks) : node.rpc.socks[s] = "open"
    /\ node' = nodeMessage(beginNode(node), id, shape, fin, now)
    /\ node'.rpc.idCounter - 1 <= MaxNodeCalls
    /\ ev' = "message"
    /\ UNCHANGED <<now, rpc, disc, reg, heard, hist, events, delays, server, view, meter>>

NodeSockFail ==
  \E s \in 1..Len(node.rpc.socks), jitter \in JitterChoices :
    /\ node.rpc.socks[s] \in {"connecting", "aborting"}
    /\ node' = nodeFail(beginNode(node), s, now, jitter)
    /\ ev' = "close"
    /\ UNCHANGED <<now, rpc, disc, reg, heard, hist, events, delays, server, view, meter>>

NodeSockError ==
  \E s \in 1..Len(node.rpc.socks) :
    /\ node.rpc.socks[s] = "open"
    /\ node' = nodeError(beginNode(node), s)
    /\ ev' = "error"
    /\ UNCHANGED <<now, rpc, disc, reg, heard, hist, events, delays, server, view, meter>>

NodeSockClose ==
  \E s \in 1..Len(node.rpc.socks), jitter \in JitterChoices, reason \in BOOLEAN :
    /\ node.rpc.socks[s] \in {"open", "closing"}
    /\ node' = nodeClose(beginNode(node), s, reason, now, jitter)
    /\ ev' = "close"
    /\ UNCHANGED <<now, rpc, disc, reg, heard, hist, events, delays, server, view, meter>>

NodeReconnectFire ==
  /\ node.rpc.reconnectTimer # NoTimer
  /\ now >= node.rpc.reconnectTimer
  /\ connectBlocked(node.rpc) \/ node.rpc.made < MaxNodeSocks
  /\ node' = nodeReconnect(beginNode(node))
  /\ ev' = "reconnect"
  /\ UNCHANGED <<now, rpc, disc, reg, heard, hist, events, delays, server, view, meter>>

NodeTimeoutFire ==
  \E x \in node.rpc.timeouts :
    /\ now >= x.at
    /\ node' = nodeTimeout(beginNode(node), x.id, now)
    /\ ev' = "timeout"
    /\ UNCHANGED <<now, rpc, disc, reg, heard, hist, events, delays, server, view, meter>>

NodePollFire ==
  /\ node.pollTimer # NoTimer
  /\ now >= node.pollTimer
  /\ node' = nodePoll(beginNode(node), now)
  /\ node'.rpc.idCounter - 1 <= MaxNodeCalls
  /\ ev' = "poll"
  /\ UNCHANGED <<now, rpc, disc, reg, heard, hist, events, delays, server, view, meter>>

TickNode ==
  \E t \in nodeDeadlines(node) :
    /\ t > now
    /\ t <= MaxNodeTime
    /\ \A d \in nodeDeadlines(node) : t <= d
    /\ now' = t
    /\ node' = beginNode(node)
    /\ ev' = "tick"
    /\ UNCHANGED <<rpc, disc, reg, heard, hist, events, delays, server, view, meter>>

NextNode ==
  \/ NodeStart \/ NodeStop
  \/ NodeSockOpen \/ NodeSockMessage \/ NodeSockFail \/ NodeSockError
  \/ NodeSockClose
  \/ NodeReconnectFire \/ NodeTimeoutFire \/ NodePollFire \/ TickNode

SpecNode == InitNode /\ [][NextNode]_vars

\* the event loop runs a due timer callback, and time passes
FairSpecNode ==
  /\ SpecNode
  /\ WF_vars(TickNode)
  /\ WF_vars(NodePollFire)
  /\ WF_vars(NodeTimeoutFire)

\* the clock or the requests of the monitor have reached their bound
NodeBoundsHit ==
  \/ \E d \in nodeDeadlines(node) : d > MaxNodeTime
  \/ node.rpc.idCounter > MaxNodeCalls

\* ------------------------------------------------- the Registry at work
Init ==
  /\ now = 0
  /\ rpc = RpcWsClient
  /\ ev = "init"
  /\ disc = FALSE
  /\ node = NodeEntry("a", "h1")
  /\ reg = Registry
  /\ heard = {}
  /\ hist = [n \in Names |-> "never"]
  /\ events = 0
  /\ delays = << >>
  /\ server = Server
  /\ view = View
  /\ meter = Meter

\* the work done so far, a timer of upsert counting as the monitor it makes
\* and the armed sweeper as the tick it will run
work ==
  Len(reg.entries) + Len(reg.grace) + events + server.sweeps
    + Len(reg.listeners)
    + (IF server.sweepAt = NoTimer THEN 0 ELSE 1)

\* one handler of monitor i ran and left it as e; which handler ran last is
\* not recorded for the Registry
regStep(i, e) ==
  /\ \E throws \in SUBSET Range(reg.listeners) :
       reg' = emitEach([beginReg(reg) EXCEPT !.entries[i] = e], i, e.out,
                       throws)
  /\ heard' = heard \cup (IF e.out # << >> THEN {i} ELSE {})
  /\ server' = noted(server, i, reg.entries[i], e)
  /\ UNCHANGED <<now, rpc, ev, disc, node, hist, delays, view, meter>>

\* the requests the handler sent that left monitor i as e
sent(i, e) == e.rpc.idCounter - reg.entries[i].rpc.idCounter

\* one socket event was given to monitor i, whose handler left it as e
sockStep(i, e) ==
  /\ work + 1 + sent(i, e) <= MaxRegWork
  /\ events' = events + 1 + sent(i, e)
  /\ regStep(i, e)

\* one timer of monitor i fired, whose callback left it as e
timerStep(i, e) ==
  /\ work + sent(i, e) <= MaxRegWork
  /\ events' = events + sent(i, e)
  /\ regStep(i, e)

Upsert ==
  \E name \in Names, host \in Hosts :
    /\ work < MaxRegWork
    /\ reg' = upsert(beginReg(reg), name, host, now)
    /\ hist' = [hist EXCEPT ![name] =
                  IF reg.nodes[name] # 0 \/ @ = "again" THEN "again" ELSE "up"]
    /\ UNCHANGED <<now, rpc, ev, disc, node, heard, events, delays, server, view, meter>>

\* remove() of a name that is not registered returns false and changes
\* nothing
Remove ==
  \E name \in Names :
    /\ reg.nodes[name] # 0
    /\ reg' = remove(beginReg(reg), name, now)
    /\ hist' = [hist EXCEPT ![name] = IF @ = "up" THEN "removed" ELSE @]
    /\ UNCHANGED <<now, rpc, ev, disc, node, heard, events, delays, server, view, meter>>

UpsertLater ==
  /\ reg.grace # << >>
  /\ now >= Head(reg.grace).at
  /\ reg' = upsertLater(beginReg(reg))
  /\ UNCHANGED <<now, rpc, ev, disc, node, heard, hist, events, delays, server, view, meter>>

RegSockOpen ==
  \E i \in DOMAIN reg.entries : \E s \in 1..Len(reg.entries[i].rpc.socks) :
    /\ reg.entries[i].rpc.socks[s] = "connecting"
    /\ sockStep(i, nodeOpen(beginNode(reg.entries[i]), s, now))

RegSockMessage ==
  \E i \in DOMAIN reg.entries :
    \E id \in pendingIds(reg.entries[i].rpc), shape \in NodeMsgShapes,
       fin \in BOOLEAN :
      /\ \E s \in 1..Len(reg.entries[i].rpc.socks) :
           reg.entries[i].rpc.socks[s] = "open"
      /\ sockStep(i, nodeMessage(beginNode(reg.entries[i]), id, shape, fin, now))

RegSockFail ==
  \E i \in DOMAIN reg.entries : \E s \in 1..Len(reg.entries[i].rpc.socks) :
    \E jitter \in JitterChoices :
      /\ reg.entries[i].rpc.socks[s] \in {"connecting", "aborting"}
      /\ sockStep(i, nodeFail(beginNode(reg.entries[i]), s, now, jitter))

RegSockError ==
  \E i \in DOMAIN reg.entries : \E s \in 1..Len(reg.entries[i].rpc.socks) :
    /\ reg.entries[i].rpc.socks[s] = "open"
    /\ sockStep(i, nodeError(beginNode(reg.entries[i]), s))

RegSockClose ==
  \E i \in DOMAIN reg.entries : \E s \in 1..Len(reg.entries[i].rpc.socks) :
    \E jitter \in JitterChoices, reason \in BOOLEAN :
      /\ reg.entries[i].rpc.socks[s] \in {"open", "closing"}
      /\ sockStep(i, nodeClose(beginNode(reg.entries[i]), s, reason, now, jitter))

RegReconnectFire ==
  \E i \in DOMAIN reg.entries :
    /\ reg.entries[i].rpc.reconnectTimer # NoTimer
    /\ now >= reg.entries[i].rpc.reconnectTimer
    /\ timerStep(i, nodeReconnect(beginNode(reg.entries[i])))

RegTimeoutFire ==
  \E i \in DOMAIN reg.entries : \E x \in reg.entries[i].rpc.timeouts :
    /\ now >= x.at
    /\ timerStep(i, nodeTimeout(beginNode(reg.entries[i]), x.id, now))

RegPollFire ==
  \E i \in DOMAIN reg.entries :
    /\ reg.entries[i].pollTimer # NoTimer
    /\ now >= reg.entries[i].pollTimer
    /\ timerStep(i, nodePoll(beginNode(reg.entries[i]), now))

Tick ==
  \E t \in serverDeadlines(server, reg) :
    /\ t > now
    /\ \A d \in serverDeadlines(server, reg) : t <= d
    /\ reg' = regLater(beginReg(reg), t - now)
    /\ server' = serverLater(server, t - now)
    /\ UNCHANGED <<now, rpc, ev, disc, node, heard, hist, events, delays, view, meter>>

Next ==
  \/ Upsert \/ Remove \/ UpsertLater
  \/ RegSockOpen \/ RegSockMessage \/ RegSockFail \/ RegSockError
  \/ RegSockClose
  \/ RegReconnectFire \/ RegTimeoutFire \/ RegPollFire \/ Tick

Spec == Init /\ [][Next]_vars

\* ------------------------------------- the Registry under the StatsServer
\* the constructor of StatsServer has armed the sweeper
InitSweep ==
  /\ now = 0
  /\ rpc = RpcWsClient
  /\ ev = "init"
  /\ disc = FALSE
  /\ node = NodeEntry("a", "h1")
  /\ reg = Registry
  /\ heard = {}
  /\ hist = [n \in Names |-> "never"]
  /\ events = 0
  /\ delays = << >>
  /\ server = [Server EXCEPT !.sweepAt = offlineSweepIntervalMs]
  /\ view = View
  /\ meter = Meter

\* one tick of the sweeper; the callback is synchronous, so cleanupRunning
\* is false whenever a tick starts
Sweep ==
  /\ server.sweepAt # NoTimer
  /\ now >= server.sweepAt
  /\ work <= MaxRegWork
  /\ reg' = sweep(beginReg(reg), now)
  /\ server' = [server EXCEPT
                  !.sweepAt = @ + offlineSweepIntervalMs,
                  !.sweeps = @ + 1,
                  !.listed = {[i |-> reg.nodes[n],
                               connected |->
                                 reg.entries[reg.nodes[n]].snapshot.connected,
                               stamped |->
                                 reg.entries[reg.nodes[n]].snapshot
                                   .lastDisconnected # << >>] :
                              n \in {m \in Names : reg.nodes[m] # 0}},
                  !.removed = {i \in DOMAIN reg.entries :
                                 \E n \in Names : /\ reg.nodes[n] = i
                                                  /\ reg'.nodes[n] # i},
                  !.broadcast = (reg'.nodes # reg.nodes)]
  /\ UNCHANGED <<now, rpc, ev, disc, node, heard, hist, events, delays, view, meter>>

NextSweep == Next \/ Sweep

SpecSweep == InitSweep /\ [][NextSweep]_vars

\* ------------------------------------------ the Registry and its listeners
AddListener ==
  \E l \in Listeners :
    /\ l \notin Range(reg.listeners)
    /\ work < MaxRegWork
    /\ reg' = addListener(beginReg(reg), l)
    /\ UNCHANGED <<now, rpc, ev, disc, node, heard, hist, events, delays, server, view, meter>>

Unsubscribe ==
  \E l \in Range(reg.listeners) :
    /\ reg' = unsubscribe(beginReg(reg), l)
    /\ UNCHANGED <<now, rpc, ev, disc, node, heard, hist, events, delays, server, view, meter>>

NextListen == Next \/ AddListener \/ Unsubscribe

SpecListen == Init /\ [][NextListen]_vars

\* --------------------------------------- the Registry and a failing disk
\* remove() of a name that is not registered, and remove() while the nodes
\* file cannot be written; each call counts as work
RemoveElse ==
  \E name \in Names, written \in BOOLEAN :
    /\ reg.nodes[name] = 0 \/ ~written
    /\ work < MaxRegWork
    /\ events' = events + 1
    /\ reg' = IF written THEN remove(beginReg(reg), name, now)
              ELSE removeUnwritten(beginReg(reg), name, now)
    /\ hist' = [hist EXCEPT ![name] =
                  IF @ = "up" /\ reg.nodes[name] # 0 THEN "removed" ELSE @]
    /\ UNCHANGED <<now, rpc, ev, disc, node, heard, delays, server, view, meter>>

\* upsert() of a registered name with another host than it has, and
\* upsert() of a new name while the nodes file cannot be written
OtherHosts == {"h2"}

UpsertElse ==
  \E name \in Names, host \in Hosts \cup OtherHosts, written \in BOOLEAN :
    /\ \/ host \in OtherHosts /\ reg.nodes[name] # 0 /\ written
       \/ host \in Hosts /\ reg.nodes[name] = 0 /\ ~written
    /\ work + 1 < MaxRegWork
    /\ events' = events + 1
    /\ reg' = IF written THEN upsert(beginReg(reg), name, host, now)
              ELSE upsertUnwritten(beginReg(reg), name, host, now)
    /\ hist' = [hist EXCEPT ![name] =
                  IF reg.nodes[name] # 0 \/ @ = "again" THEN "again" ELSE "up"]
    /\ UNCHANGED <<now, rpc, ev, disc, node, heard, delays, server, view, meter>>

\* the callback of upsert's timer while the nodes file cannot be written,
\* which counts as work
UpsertLaterElse ==
  /\ reg.grace # << >>
  /\ now >= Head(reg.grace).at
  /\ work < MaxRegWork
  /\ events' = events + 1
  /\ reg' = upsertLaterUnwritten(beginReg(reg))
  /\ UNCHANGED <<now, rpc, ev, disc, node, heard, hist, delays, server, view, meter>>

\* nothing handles an exception that leaves a timer callback: the process
\* ends
alive == reg.threw # "timer"

NextDisk ==
  \/ alive /\ Upsert
  \/ alive /\ Remove
  \/ alive /\ UpsertLater
  \/ alive /\ RegSockOpen
  \/ alive /\ RegSockMessage
  \/ alive /\ RegSockFail
  \/ alive /\ RegSockError
  \/ alive /\ RegSockClose
  \/ alive /\ RegReconnectFire
  \/ alive /\ RegTimeoutFire
  \/ alive /\ RegPollFire
  \/ alive /\ Tick
  \/ alive /\ RemoveElse
  \/ alive /\ UpsertElse
  \/ alive /\ UpsertLaterElse

SpecDisk == Init /\ [][NextDisk]_vars

\* ----------------------------------------------- the queries of a Registry
InitQuery ==
  /\ now = 0
  /\ rpc = RpcWsClient
  /\ ev = "init"
  /\ disc = FALSE
  /\ node = NodeEntry("a", "h1")
  /\ reg = Registry
  /\ heard = {}
  /\ hist = [n \in Names |-> "never"]
  /\ events = 0
  /\ delays = << >>
  /\ server = Server
  /\ view \in {[View EXCEPT !.snaps = m] : m \in Maps}
  /\ meter = Meter

List ==
  /\ view' = [view EXCEPT !.op = "list", !.res = list(view.snaps)]
  /\ UNCHANGED <<now, rpc, ev, disc, node, reg, heard, hist, events, delays, server, meter>>

GetFirstConnected ==
  /\ view' = [view EXCEPT !.op = "first",
                          !.res = getFirstConnected(view.snaps)]
  /\ UNCHANGED <<now, rpc, ev, disc, node, reg, heard, hist, events, delays, server, meter>>

GetMostAdvancedConnected ==
  /\ view' = [view EXCEPT !.op = "advanced",
                          !.res = getMostAdvancedConnected(view.snaps)]
  /\ UNCHANGED <<now, rpc, ev, disc, node, reg, heard, hist, events, delays, server, meter>>

GetLowestLatencyConnected ==
  /\ view' = [view EXCEPT !.op = "latency",
                          !.res = getLowestLatencyConnected(view.snaps)]
  /\ UNCHANGED <<now, rpc, ev, disc, node, reg, heard, hist, events, delays, server, meter>>

NextQuery ==
  \/ List \/ GetFirstConnected \/ GetMostAdvancedConnected
  \/ GetLowestLatencyConnected

SpecQuery == InitQuery /\ [][NextQuery]_vars

\* ------------------------------------------- the nodes file of a Registry
InitStore ==
  /\ now = 0
  /\ rpc = RpcWsClient
  /\ ev = "init"
  /\ disc = FALSE
  /\ node = NodeEntry("a", "h1")
  /\ reg = Registry
  /\ heard = {}
  /\ hist = [n \in Names |-> "never"]
  /\ events = 0
  /\ delays = << >>
  /\ server = Server
  /\ view \in {[View EXCEPT !.snaps = m] : m \in StoredMaps}
  /\ meter = Meter

\* persist() with the file written
Persist ==
  /\ view.op = "none"
  /\ view' = [view EXCEPT !.op = "persist", !.res = stringify(view.snaps)]
  /\ UNCHANGED <<now, rpc, ev, disc, node, reg, heard, hist, events, delays, server, meter>>

\* loadPersistedNodes() of the file persist() wrote
Load ==
  /\ view.op = "persist"
  /\ view' = [view EXCEPT !.op = "load", !.res = loadPersistedNodes(view.res)]
  /\ UNCHANGED <<now, rpc, ev, disc, node, reg, heard, hist, events, delays, server, meter>>

NextStore == Persist \/ Load

SpecStore == InitStore /\ [][NextStore]_vars

\* ------------------------------------------- the metrics of one monitor
InitMeter ==
  /\ now = 0
  /\ rpc = RpcWsClient
  /\ ev = "init"
  /\ disc = FALSE
  /\ node = NodeEntry("a", "h1")
  /\ reg = Registry
  /\ heard = {}
  /\ hist = [n \in Names |-> "never"]
  /\ events = 0
  /\ delays = << >>
  /\ server = Server
  /\ view = View
  /\ meter = Meter

\* one poll cycle, from its first probe to its finally block
PollProbes ==
  \E a \in ProbeCases :
    /\ meter' = [pollData(meter, a) EXCEPT !.asked = a]
    /\ UNCHANGED <<now, rpc, ev, disc, node, reg, heard, hist, events, delays, server, view>>

SpecMeter == InitMeter /\ [][PollProbes]_vars

\* one poll cycle of a node that answers every probe
PollBlocks ==
  \E a \in BlockCases(meter) :
    /\ meter' = [pollData(meter, a) EXCEPT !.asked = a]
    /\ UNCHANGED <<now, rpc, ev, disc, node, reg, heard, hist, events, delays, server, view>>

SpecWindow == InitMeter /\ [][PollBlocks]_vars

\* --------------------------------------- the reconnect delays of one client
InitBackoff ==
  /\ now = 0
  /\ rpc = RpcWsClient
  /\ ev = "init"
  /\ disc = FALSE
  /\ node = NodeEntry("a", "h1")
  /\ reg = Registry
  /\ heard = {}
  /\ hist = [n \in Names |-> "never"]
  /\ events = 0
  /\ delays = << >>
  /\ server = Server
  /\ view = View
  /\ meter = Meter

\* the delay of the reconnect a close handler scheduled at time t
scheduled(c, t) == c.reconnectTimer - t

BackoffConnect ==
  /\ ev = "init"
  /\ rpc' = connect(begin(rpc))
  /\ ev' = "connect"
  /\ UNCHANGED <<now, disc, node, reg, heard, hist, events, delays, server, view, meter>>

BackoffOpen ==
  \E s \in 1..Len(rpc.socks) :
    /\ rpc.socks[s] = "connecting"
    /\ rpc' = onOpen(sockTo(begin(rpc), s, "open"))
    /\ delays' = << >>
    /\ ev' = "open"
    /\ UNCHANGED <<now, disc, node, reg, heard, hist, events, server, view, meter>>

\* a failed handshake: 'error', then 'close'
BackoffFail ==
  \E s \in 1..Len(rpc.socks), jitter \in BackoffJitter :
    /\ rpc.socks[s] = "connecting"
    /\ rpc' = onClose(onError(sockTo(begin(rpc), s, "closed")), now, jitter)
    /\ delays' = Append(delays, scheduled(rpc', now))
    /\ ev' = "close"
    /\ UNCHANGED <<now, disc, node, reg, heard, hist, events, server, view, meter>>

BackoffClose ==
  \E s \in 1..Len(rpc.socks), jitter \in BackoffJitter :
    /\ rpc.socks[s] = "open"
    /\ rpc' = onClose(sockTo(begin(rpc), s, "closed"), now, jitter)
    /\ delays' = Append(delays, scheduled(rpc', now))
    /\ ev' = "close"
    /\ UNCHANGED <<now, disc, node, reg, heard, hist, events, server, view, meter>>

BackoffReconnectFire ==
  /\ rpc.reconnectTimer # NoTimer
  /\ now >= rpc.reconnectTimer
  /\ rpc.made < MaxAttempts
  /\ rpc' = connect([begin(rpc) EXCEPT !.reconnectTimer = NoTimer])
  /\ ev' = "reconnect"
  /\ UNCHANGED <<now, disc, node, reg, heard, hist, events, delays, server, view, meter>>

BackoffTick ==
  /\ rpc.reconnectTimer # NoTimer
  /\ now < rpc.reconnectTimer
  /\ now' = rpc.reconnectTimer
  /\ rpc' = begin(rpc)
  /\ ev' = "tick"
  /\ UNCHANGED <<disc, node, reg, heard, hist, events, delays, server, view, meter>>

NextBackoff ==
  \/ BackoffConnect \/ BackoffOpen \/ BackoffFail \/ BackoffClose
  \/ BackoffReconnectFire \/ BackoffTick

SpecBackoff == InitBackoff /\ [][NextBackoff]_vars

\* the bounds of the model stop a due timer or the clock
BoundsHit ==
  \/ \E d \in deadlines(rpc) : d > MaxTime
  \/ rpc.reconnectTimer # NoTimer /\ ~connectBlocked(rpc) /\ ~inBudget(rpc)

liveSocks(c) == {s \in 1..Len(c.socks) : c.socks[s] \in {"connecting", "open"}}

timerOf(c, id) == {x \in c.timeouts : x.id = id}

\* ------------------------------------------------------------------ claims

\* the monitors that were started and have not been stopped
running(r) == {i \in DOMAIN r.entries : ~r.entries[i].stopped}

\* C1: whatever the order of upserts on one name, two of them within the
\* grace delay included, a monitor that was started and not stopped is the
\* monitor the map holds under its name.
C1_RunningIsRegistered ==
  \A i \in running(reg) : reg.nodes[reg.entries[i].name] = i

\* C2: once the monitor that upsert created in place of an old one has
\* delivered an update to the listeners, no step delivers an update of the
\* old monitor, be it from its close or error callback or from the end of a
\* poll cycle that was in flight when it was stopped.
C2_NoUpdateFromReplaced ==
  [][\A i \in emitters(reg') : ~\E j \in heard : reg.origin[j] = i]_vars

\* C3: a name that was never upserted while it was registered is listed
\* exactly when it has been upserted and not removed since.
C3_ListedIffUpserted ==
  \A n \in Names :
    hist[n] # "again" => (n \in listNames(reg) <=> hist[n] = "up")

\* a name is listed after its upsert while another, upserted too, is not
\* listed after its removal
C3_Witness ==
  \E n, m \in Names :
    /\ hist[n] = "up" /\ n \in listNames(reg)
    /\ hist[m] = "removed" /\ m \notin listNames(reg)

\* C4: once stop() has been called the monitor has no poll timer armed and
\* its connection no reconnect timer and no request-timeout timer, in every
\* later state too, also when stop() came while a poll cycle was in flight.
C4_StopLeavesNoTimers ==
  node.stopped =>
    /\ node.pollTimer = NoTimer
    /\ node.rpc.reconnectTimer = NoTimer
    /\ node.rpc.timeouts = {}

\* C5 (as claimed): when disconnect() returns the pending table is empty, no
\* request timer is armed, and what it rejected was rejected ConnectionClosed.
C5_DisconnectFailsAllPending ==
  ev = "disconnect" =>
    /\ rpc.pending = {}
    /\ rpc.timeouts = {}
    /\ \A x \in rpc.last : x.how = "ConnectionClosed"

\* C6: a close rejects exactly the requests that were pending, each with
\* ConnectionClosed, and empties the table and their timers; a request never
\* settles unless it was pending (or sent) in the step that settles it, and an
\* armed request timer always belongs to a pending request.
C6_CloseFailsAllPending ==
  [][ /\ ev' = "close" =>
           /\ rpc'.last = {[id |-> i, how |-> "ConnectionClosed"] :
                              i \in pendingIds(rpc)}
           /\ rpc'.pending = {}
           /\ rpc'.timeouts = {}
      /\ \A x \in rpc'.last :
           x.id \in pendingIds(rpc) \/ (ev' = "call" /\ x.id = rpc.idCounter)
      /\ {x.id : x \in rpc'.timeouts} \subseteq pendingIds(rpc')
    ]_vars

C6_Witness == ev = "close" /\ Cardinality(rpc.last) >= 2 /\ rpc.pending = {}

\* C7: after a close a reconnect timer is armed exactly when disconnect() has
\* not been called; once disconnect() was called no timer is armed and only a
\* connect() call makes a socket; an armed reconnect timer eventually runs or
\* is cancelled, and when it runs unblocked it makes a socket.
C7_ReconnectIffNotDisconnected ==
  /\ [][ /\ ev' = "close" => ((rpc'.reconnectTimer # NoTimer) <=> ~disc')
         /\ disc' => rpc'.reconnectTimer = NoTimer
         /\ (rpc'.made > rpc.made /\ disc) => ev' = "connect"
         /\ (ev' = "reconnect" /\ ~connectBlocked(rpc)) => rpc'.made = rpc.made + 1
       ]_vars
  /\ (rpc.reconnectTimer # NoTimer) ~> (rpc.reconnectTimer = NoTimer \/ BoundsHit)

C7_Witness ==
  ev = "close" /\ disc /\ rpc.reconnectTimer = NoTimer /\ rpc.made = 1

\* C8 (as claimed): at most one socket of a client is connecting or open.
C8_OneLiveSocket == Cardinality(liveSocks(rpc)) <= 1

\* C9 (as claimed): a pending request that leaves the table without a response
\* while the connection is open was rejected with Timeout, timeoutMs or more
\* after it was sent.
C9_TimeoutOnly ==
  [][ \A p \in rpc.pending :
        (p.id \notin pendingIds(rpc') /\ ev' \notin {"message", "close"}
           /\ canSend(rpc') /\ rpc'.connected)
        => /\ [id |-> p.id, how |-> "Timeout"] \in rpc'.last
           /\ now' >= p.createdAt + p.timeoutMs
    ]_vars

\* C9 (amended): a pending request that leaves the table without a response
\* and without a close was rejected with Timeout, timeoutMs or more after it
\* was sent, or with Expired by the sweep when older than maxAge; a settled
\* request is out of the table; every pending request has its timer armed for
\* createdAt + timeoutMs, and eventually leaves the table.
C9_TimeoutOrExpired ==
  /\ [][ /\ \A p \in rpc.pending :
              (p.id \notin pendingIds(rpc') /\ ev' \notin {"message", "close"})
              => \/ /\ [id |-> p.id, how |-> "Timeout"] \in rpc'.last
                    /\ now' >= p.createdAt + p.timeoutMs
                 \/ /\ [id |-> p.id, how |-> "Expired"] \in rpc'.last
                    /\ now' - p.createdAt > maxAge
         /\ \A x \in rpc'.last : x.id \notin pendingIds(rpc')
         /\ \A p \in rpc'.pending :
              timerOf(rpc', p.id) = {[id |-> p.id, at |-> p.createdAt + p.timeoutMs]}
       ]_vars
  /\ \A i \in 1..MaxOps :
       (i \in pendingIds(rpc)) ~> (i \notin pendingIds(rpc) \/ BoundsHit)

C9_Witness ==
  /\ ev = "timeout"
  /\ \E x \in rpc.last : x.how = "Timeout"
  /\ canSend(rpc)

\* C10: a message with a parsed id that is pending removes that request and
\* its timer and settles it by shape (result present: resolved; only error:
\* RemoteError; neither: ProtocolError); with any other id nothing changes.
C10_Expected(shape) ==
  CASE shape \in {"result", "both"} -> "result"
    [] shape = "error" -> "RemoteError"
    [] shape = "neither" -> "ProtocolError"

C10_ResponseSettlesByShape ==
  [][ \A id \in 0..rpc.idCounter, shape \in MsgShapes \ {"malformed"} :
        (ev' = "message" /\ rpc' = onMessage(begin(rpc), id, shape))
        => IF id \in pendingIds(rpc)
             THEN /\ rpc'.pending = {p \in rpc.pending : p.id # id}
                  /\ rpc'.timeouts = {x \in rpc.timeouts : x.id # id}
                  /\ rpc'.last = {[id |-> id, how |-> C10_Expected(shape)]}
             ELSE rpc' = begin(rpc)
    ]_vars

C10_Witness ==
  /\ ev = "message"
  /\ \E x \in rpc.last : x.how = "ProtocolError"
  /\ rpc.pending # {}

\* C11 (as claimed): a frame that is not JSON, received while a call is
\* outstanding, fails that call with ProtocolError.
C11_MalformedFailsCall ==
  [][ \A id \in pendingIds(rpc) :
        (ev' = "message" /\ rpc' = onMessage(begin(rpc), id, "malformed"))
        => [id |-> id, how |-> "ProtocolError"] \in rpc'.last
    ]_vars

\* C12: the id counter never decreases; a request that enters the pending
\* table carries the value the counter had, and the counter moves past it;
\* so every pending id is below the counter and no two pending requests
\* share an id, before and after any reconnect.
C12_IdsIncrease ==
  [][ /\ rpc'.idCounter >= rpc.idCounter
      /\ \A p \in rpc'.pending :
           p.id \notin pendingIds(rpc) =>
             p.id = rpc.idCounter /\ rpc'.idCounter = rpc.idCounter + 1
      /\ \A x \in rpc'.last :
           x.id \notin pendingIds(rpc) =>
             x.id = rpc.idCounter /\ rpc'.idCounter = rpc.idCounter + 1
      /\ \A p \in rpc'.pending : p.id < rpc'.idCounter
      /\ \A p, q \in rpc'.pending : p.id = q.id => p = q
    ]_vars

\* a call made on the second socket of the client got an id above the first
C12_Witness ==
  /\ ev = "call"
  /\ rpc.made >= 2
  /\ \E p \in rpc.pending : p.id >= 2 /\ p.id = rpc.idCounter - 1

\* C15: the sweep rejects with Expired exactly the pending requests older
\* than 60 s and removes them and their timers; the younger requests, their
\* timers and every other field of the client stay as they were.
C15_SweepExpiresOnlyOld ==
  [][ ev' = "cleanup" =>
        LET old == {p \in rpc.pending : now - p.createdAt > 60000}
            ids == {p.id : p \in old}
        IN /\ rpc'.pending = rpc.pending \ old
           /\ rpc'.timeouts = {x \in rpc.timeouts : x.id \notin ids}
           /\ rpc'.last = {[id |-> i, how |-> "Expired"] : i \in ids}
           /\ [rpc' EXCEPT !.pending = {}, !.timeouts = {}, !.last = {}]
                = [rpc EXCEPT !.pending = {}, !.timeouts = {}, !.last = {}]
    ]_vars

\* a sweep expired one request and left a younger one pending with its timer
C15_Witness ==
  /\ ev = "cleanup"
  /\ \E x \in rpc.last : x.how = "Expired"
  /\ \E p \in rpc.pending :
       /\ now - p.createdAt <= 60000
       /\ \E x \in rpc.timeouts : x.id = p.id

\* C13: every reconnect is scheduled with a delay of at least 2000 ms and at
\* most 30000 ms, however many attempts failed in a row and whatever the
\* jitter was.
C13_DelayWithinBounds ==
  \A k \in DOMAIN delays : delays[k] >= 2000 /\ delays[k] <= 30000

\* the fifth failure in a row was scheduled with the capped delay
C13_Witness ==
  /\ Len(delays) >= 5
  /\ delays[5] = 30000
  /\ \E k \in DOMAIN delays : delays[k] % 1000 # 0

\* C14 (as claimed): from the base delay, three failures in a row schedule
\* reconnects after 2000 ms, then 4000 to 5000 ms, then 8000 to 9000 ms.
C14_ThreeDelays ==
  /\ Len(delays) >= 1 => delays[1] = 2000
  /\ Len(delays) >= 2 => delays[2] >= 4000 /\ delays[2] <= 5000
  /\ Len(delays) >= 3 => delays[3] >= 8000 /\ delays[3] <= 9000

\* C14 (amended): from the base delay, three failures in a row schedule
\* reconnects after 2000 ms, then 4000 ms plus a jitter below 1000 ms, then
\* twice the second delay plus a jitter below 1000 ms, which lies between
\* 8000 and 11000 ms.
C14_ThreeDelaysCompound ==
  /\ Len(delays) >= 1 => delays[1] = 2000
  /\ Len(delays) >= 2 => delays[2] >= 4000 /\ delays[2] < 5000
  /\ Len(delays) >= 3 =>
       /\ delays[3] >= 2 * delays[2] /\ delays[3] < 2 * delays[2] + 1000
       /\ delays[3] >= 8000 /\ delays[3] < 11000

\* the reconnect after a third failure in a row was scheduled more than
\* 9000 ms ahead, and the fourth socket has been made
C14_Witness ==
  /\ Len(delays) >= 3
  /\ delays[3] > 9000
  /\ rpc.made >= 4

\* C16: at a tick of the sweeper, every registered monitor whose connection
\* dropped at least offlineUnsubscribeMs ago and has not opened since is
\* removed and a snapshot is broadcast, and no other monitor is removed.
C16_StaleIsSwept ==
  [][ server'.sweeps # server.sweeps =>
        /\ \A x \in server.down :
             (/\ 0 - x.at >= offlineUnsubscribeMs
              /\ \E n \in Names : reg.nodes[n] = x.i)
             => (x.i \in server'.removed /\ server'.broadcast)
        /\ \A i \in server'.removed :
             \E x \in server.down :
               x.i = i /\ 0 - x.at >= offlineUnsubscribeMs ]_vars

\* C17: a tick of the sweeper leaves in the map every monitor whose snapshot
\* is connected and every monitor whose snapshot has no lastDisconnected,
\* whatever the time since its connection dropped.
C17_SweepSpares ==
  [][ server'.sweeps # server.sweeps =>
        \A n \in Names :
          LET i == reg.nodes[n] IN
          (/\ i # 0
           /\ \/ reg.entries[i].snapshot.connected
              \/ reg.entries[i].snapshot.lastDisconnected = << >>)
          => reg'.nodes[n] = i ]_vars

\* the latest tick listed a monitor that is not connected, has no
\* lastDisconnected and lost its connection longer ago than the limit, and
\* the monitor is still registered
C17_Witness ==
  \E y \in server.listed :
    /\ ~y.connected /\ ~y.stamped
    /\ \E x \in server.down : x.i = y.i /\ 0 - x.at > offlineUnsubscribeMs
    /\ \E n \in Names : reg.nodes[n] = y.i
    /\ server.removed = {}

\* C18: the updates one handler of a monitor reports reach every registered
\* listener, update by update in the order reported and listener by
\* listener in the order registered, whichever listeners throw; no exception
\* leaves emit, and the map and the listeners are as before the handler.
C18_AllListenersHear ==
  [][ \A i \in emitters(reg') :
        LET out == reg'.entries[i].out
            ls == reg.listeners
        IN /\ Len(reg'.delivered) = Len(out) * Len(ls)
           /\ \A k \in 1..Len(out) : \A j \in 1..Len(ls) :
                reg'.delivered[(k - 1) * Len(ls) + j]
                  = [to |-> ls[j], of |-> i, s |-> out[k]]
           /\ ~reg'.escaped
           /\ reg'.nodes = reg.nodes
           /\ reg'.listeners = reg.listeners ]_vars

\* the first of two listeners threw at each of two updates of one handler,
\* and the second was called with both
C18_Witness ==
  /\ Len(reg.listeners) = 2
  /\ reg.listeners[1] \in reg.caught
  /\ reg.listeners[2] \notin reg.caught
  /\ Len(reg.delivered) = 4
  /\ reg.delivered[2].to = reg.listeners[2]
  /\ reg.delivered[4].to = reg.listeners[2]

\* C19: what a listener was handed keeps the value it had when handed over:
\* the snapshot object of the monitor still reads as it did at the call.
C19_HeldSnapshotIsCopy ==
  \A k \in DOMAIN reg.delivered :
    reg.entries[reg.delivered[k].of].snapshot = reg.delivered[k].s

\* C20: remove(name) returns true exactly when name was registered; after a
\* true the monitor is stopped, the name is out of the map and the file
\* lists the monitors of the map; after a false the map, the monitors and
\* the file are as they were.
C20_RemoveReturns ==
  [][ reg'.ret # << >> =>
        LET name == reg'.ret[1]
            v == reg'.ret[2]
            i == reg.nodes[name]
        IN /\ (v = "true") <=> (i # 0)
           /\ v = "true" =>
                /\ reg'.entries[i].stopped
                /\ reg'.nodes = [reg.nodes EXCEPT ![name] = 0]
                /\ reg'.persisted = getPersistedList(reg')
           /\ v = "false" =>
                /\ reg'.nodes = reg.nodes
                /\ reg'.entries = beginReg(reg).entries
                /\ reg'.persisted = reg.persisted ]_vars

\* C21: list() returns every snapshot of the map once, connected ones first,
\* then by ascending latencyMs with an undefined latency last, then the
\* most recent lastUpdated first, then by name, and returns the same
\* sequence for every insertion order of the same snapshots.
C21_ListRanked ==
  view.op = "list" =>
    LET res == view.res
        lat(s) == IF s.latencyMs = << >> THEN Infinity ELSE s.latencyMs[1]
        upd(s) == IF s.lastUpdated = << >> THEN 0 - Infinity
                  ELSE s.lastUpdated[1]
        before(a, b) ==
          \/ a.connected /\ ~b.connected
          \/ /\ a.connected = b.connected
             /\ \/ lat(a) < lat(b)
                \/ /\ lat(a) = lat(b)
                   /\ \/ upd(a) > upd(b)
                      \/ /\ upd(a) = upd(b)
                         /\ localeCompare(a.name, b.name) < 0
    IN /\ Len(res) = Len(view.snaps)
       /\ Range(res) = Range(view.snaps)
       /\ \A i, j \in DOMAIN res : i < j => before(res[i], res[j])
       /\ \A p \in Permutations(DOMAIN view.snaps) :
            list([i \in DOMAIN view.snaps |-> view.snaps[p[i]]]) = res

\* C21, amended: as above, with a negative latencyMs ranked last like an
\* undefined one.
C21_ListRankedValid ==
  view.op = "list" =>
    LET res == view.res
        lat(s) == IF s.latencyMs = << >> \/ s.latencyMs[1] < 0 THEN Infinity
                  ELSE s.latencyMs[1]
        upd(s) == IF s.lastUpdated = << >> THEN 0 - Infinity
                  ELSE s.lastUpdated[1]
        before(a, b) ==
          \/ a.connected /\ ~b.connected
          \/ /\ a.connected = b.connected
             /\ \/ lat(a) < lat(b)
                \/ /\ lat(a) = lat(b)
                   /\ \/ upd(a) > upd(b)
                      \/ /\ upd(a) = upd(b)
                         /\ localeCompare(a.name, b.name) < 0
    IN /\ Len(res) = Len(view.snaps)
       /\ Range(res) = Range(view.snaps)
       /\ \A i, j \in DOMAIN res : i < j => before(res[i], res[j])
       /\ \A p \in Permutations(DOMAIN view.snaps) :
            list([i \in DOMAIN view.snaps |-> view.snaps[p[i]]]) = res

\* list() of two connected snapshots put the one inserted second first,
\* its latency being measured and the other's negative
C21_Witness ==
  /\ view.op = "list"
  /\ Len(view.res) = 2
  /\ view.res = <<view.snaps[2], view.snaps[1]>>
  /\ view.res[1].connected /\ view.res[2].connected
  /\ view.res[1].latencyMs = <<10>>
  /\ view.res[2].latencyMs = <<0 - 5>>

\* C22: getMostAdvancedConnected() returns undefined when no monitor is
\* connected; otherwise it returns a connected monitor no connected monitor
\* has a higher latestBlock than, nor the same latestBlock with a more
\* recent lastUpdated.
C22_MostAdvanced ==
  view.op = "advanced" =>
    LET snaps == view.snaps
        up == {k \in DOMAIN snaps : snaps[k].connected}
        blk(k) == IF snaps[k].latestBlock = << >> THEN 0 - Infinity
                  ELSE snaps[k].latestBlock[1]
        upd(k) == IF snaps[k].lastUpdated = << >> THEN 0 - Infinity
                  ELSE snaps[k].lastUpdated[1]
    IN IF up = {} THEN view.res = << >>
       ELSE /\ view.res # << >>
            /\ view.res[1] \in up
            /\ \A j \in up :
                 /\ blk(j) <= blk(view.res[1])
                 /\ blk(j) = blk(view.res[1]) => upd(j) <= upd(view.res[1])

\* of two connected monitors at the same block, the second, updated later,
\* was returned
C22_Witness ==
  /\ view.op = "advanced"
  /\ Len(view.snaps) = 2
  /\ view.snaps[1].connected /\ view.snaps[2].connected
  /\ view.snaps[1].latestBlock = <<8>> /\ view.snaps[2].latestBlock = <<8>>
  /\ view.snaps[1].lastUpdated = <<1>> /\ view.snaps[2].lastUpdated = <<2>>
  /\ view.res = <<2>>

\* C23: with a monitor connected and no connected monitor having a
\* latestBlock, getMostAdvancedConnected() returns the first connected
\* monitor of the map; with no connected monitor having a finite latencyMs,
\* getLowestLatencyConnected() returns the first connected monitor too.
C23_FallbackIsFirst ==
  LET snaps == view.snaps
      up == {k \in DOMAIN snaps : snaps[k].connected}
      first == <<CHOOSE k \in up : \A j \in up : k <= j>>
  IN /\ (/\ view.op = "advanced"
          /\ up # {}
          /\ \A k \in up : snaps[k].latestBlock = << >>)
         => view.res = first
     /\ (/\ view.op = "latency"
          /\ up # {}
          /\ \A k \in up : snaps[k].latencyMs = << >>)
         => view.res = first

C25_FileListsMap ==
  [][ (/\ reg'.nodes # reg.nodes
       /\ reg'.threw = "none"
       /\ reg'.ret = << >> \/ reg'.ret[2] # "threw")
      => reg'.persisted = getPersistedList(reg') ]_vars

\* the timer of a replacing upsert has put a monitor with the new host in
\* the map and the file lists it with that host
C25_Witness ==
  \E n \in Names :
    /\ reg.nodes[n] # 0
    /\ reg.origin[reg.nodes[n]] # 0
    /\ reg.entries[reg.nodes[n]].host = "h2"
    /\ [name |-> n, host |-> "h2"] \in reg.persisted
    /\ reg.threw = "none"

\* C26: no call of upsert or remove and no callback of upsert's timer ends
\* with an exception when the nodes file cannot be written.
C26_WriteFailureAbsorbed ==
  /\ reg.threw = "none"
  /\ reg.ret = << >> \/ reg.ret[2] # "threw"

\* C27: the list loaded from the file persist() wrote has, in the same
\* order, the name, host, rpcPort and wsRpcPort of every monitor of the map.
C27_LoadGivesPersisted ==
  view.op = "load" => view.res = view.snaps

\* two monitors were loaded back, one of them with ports other than the
\* defaults and a host given as a URL
C27_Witness ==
  /\ view.op = "load"
  /\ Len(view.res) = 2
  /\ \E k \in DOMAIN view.res :
       /\ view.res[k].rpcPort = 1
       /\ view.res[k].wsRpcPort = 65535
       /\ view.res[k].host = "ws://h2"

\* C28: a monitor never has two poll cycles in progress: at most one
\* invocation of poll() is suspended at an await, whatever the order of the
\* timers, the answers, the socket events and stop().
C28_OnePollInFlight ==
  Cardinality(node.polls) <= 1

\* a cycle is in flight on the second connection of the monitor, after an
\* earlier cycle of it made its requests and the first connection closed
C28_Witness ==
  /\ ev = "poll"
  /\ Cardinality(node.polls) = 1
  /\ node.rpc.made = 2
  /\ node.rpc.idCounter > 2

\* the handler that just ran was poll() and it started a cycle
C29_CycleStarted ==
  ev = "poll" /\ (node.polls # {} \/ node.out # << >>)

\* C29: while the monitor is not stopped, a poll cycle that ends, by success
\* or by a failed probe, leaves the poll timer armed; an open connection has
\* a cycle in flight or the timer armed; and an armed poll timer is followed
\* by the start of a further cycle unless the connection closes or stop()
\* is called first.
C29_PollLoopGoesOn ==
  /\ [][ (/\ \/ node.polls # {} /\ node'.polls = {}
             \/ C29_CycleStarted' /\ node'.polls = {}
          /\ ~node'.stopped)
         => node'.pollTimer # NoTimer ]_vars
  /\ []((~node.stopped /\ isConnected(node.rpc))
          => (node.polls # {} \/ node.pollTimer # NoTimer))
  /\ (~node.stopped /\ node.pollTimer # NoTimer)
       ~> (C29_CycleStarted \/ node.stopped \/ ~isConnected(node.rpc)
             \/ NodeBoundsHit)

\* a cycle ended because the node answered a probe with an error, and the
\* next poll is scheduled on the open connection
C29_Witness ==
  /\ ev = "message"
  /\ node.polls = {}
  /\ node.snapshot.lastError = "RemoteError"
  /\ isConnected(node.rpc)
  /\ ~node.stopped
  /\ node.pollTimer = now + pollIntervalMs

\* C30 (as claimed): from the close callback until the next onOpen no poll
\* timer is armed for a monitor that was not stopped, also when the close
\* arrived while a poll cycle was in flight.
C30_NoPollTimerWhileClosed ==
  (~isConnected(node.rpc) /\ ~node.stopped) => node.pollTimer = NoTimer

\* C31 (as claimed): a close that finds the snapshot connected sets
\* snapshot.lastDisconnected to the time of the close; a close that finds it
\* already disconnected leaves lastDisconnected as it was.
C31_LastDisconnectedOnClose ==
  [][ ev' = "close" =>
        IF node.snapshot.connected
          THEN node'.snapshot.lastDisconnected = <<now'>>
          ELSE node'.snapshot.lastDisconnected = node.snapshot.lastDisconnected
    ]_vars

\* C32: the error callback records lastError and passes the snapshot to the
\* owner once, and leaves snapshot.connected, the poll timer and the polling
\* flag as they were.
C32_ErrorOnlyRecords ==
  [][ ev' = "error" =>
        /\ node'.snapshot.lastError = "ws error"
        /\ node'.out = <<node'.snapshot>>
        /\ node'.snapshot.connected = node.snapshot.connected
        /\ node'.pollTimer = node.pollTimer
        /\ node'.polling = node.polling
        /\ node'.polls = node.polls
    ]_vars

\* the error came on an open connection with the next poll scheduled
C32_Witness ==
  /\ ev = "error"
  /\ node.snapshot.connected
  /\ node.pollTimer # NoTimer
  /\ node.snapshot.lastError = "ws error"

\* C33 (as claimed): a cycle whose eth_mining probe is rejected, its other
\* probes answered, does not end in the catch block and leaves
\* snapshot.mining at its previous value.
C33_MiningKeptOnFailure ==
  [][ (/\ meter'.asked.blockNumber.ok
       /\ meter'.asked.peerCount.ok
       /\ ~meter'.asked.mining.ok)
      => (~meter'.failed /\ meter'.mining = meter.mining) ]_vars

\* C34 (as claimed): in a cycle that does not fail, a hexadecimal answer
\* that parses to no finite number leaves its snapshot field (latestBlock,
\* peerCount, gasPriceGwei, gasUsed, gasLimit) at its previous value.
C34_UnparseableKeepsField ==
  [][ (meter'.asked.blockNumber.ok /\ meter'.asked.peerCount.ok) =>
        /\ parseInt16(meter'.asked.blockNumber.hex) = << >>
             => meter'.latestBlock = meter.latestBlock
        /\ parseInt16(meter'.asked.peerCount.hex) = << >>
             => meter'.peerCount = meter.peerCount
        /\ (meter'.asked.gasPrice.ok
               /\ parseInt16(meter'.asked.gasPrice.hex) = << >>)
             => meter'.gasPriceGwei = meter.gasPriceGwei
        /\ (meter'.asked.block.obj
               /\ parseInt16(meter'.asked.block.gasUsed) = << >>)
             => meter'.gasUsed = meter.gasUsed
        /\ (meter'.asked.block.obj
               /\ parseInt16(meter'.asked.block.gasLimit) = << >>)
             => meter'.gasLimit = meter.gasLimit
    ]_vars

\* the last k samples of those pushed so far
C35_LastSeen ==
  LET k == Min(windowCapacity, Len(meter.seen))
  IN SubSeq(meter.seen, Len(meter.seen) - k + 1, Len(meter.seen))

\* C35: the rolling window never holds more than its capacity of 10 samples
\* and holds the latest min(10, samples pushed) samples in order, so a push
\* into a full window evicts the oldest; blockTimeAvgMs is undefined before
\* the first sample and afterwards the arithmetic mean of the window.
C35_WindowMean ==
  /\ Len(meter.timesWindow) <= windowCapacity
  /\ meter.timesWindow = C35_LastSeen
  /\ IF meter.seen = << >> THEN meter.blockTimeAvgMs = << >>
     ELSE /\ meter.blockTimeAvgMs # << >>
          /\ meter.blockTimeAvgMs[2] > 0
          /\ meter.blockTimeAvgMs[1] * Len(C35_LastSeen)
               = sumOf(C35_LastSeen) * meter.blockTimeAvgMs[2]

\* more samples were pushed than the window holds, the two oldest differing
C35_Witness ==
  /\ Len(meter.seen) > windowCapacity
  /\ Len(meter.timesWindow) = windowCapacity
  /\ meter.seen[1] # meter.seen[2]

\* C36: a cycle whose block has a timestamp not strictly newer than the one
\* seen before pushes no sample and leaves blockTimeMs and blockTimeAvgMs
\* as they were; a strictly newer timestamp makes blockTimeMs the difference
\* of the two in milliseconds and pushes it as a sample.
C36_SampleOnlyWhenNewer ==
  [][ LET b == meter'.asked.block
          ts == parseInt16(b.timestamp)
          last == meter.lastBlockTimestampSec
      IN (b.obj /\ ts # << >> /\ last # << >>) =>
           IF ts[1] > last[1]
             THEN /\ meter'.blockTimeMs = <<(ts[1] - last[1]) * 1000>>
                  /\ meter'.seen = Append(meter.seen, (ts[1] - last[1]) * 1000)
             ELSE /\ meter'.seen = meter.seen
                  /\ meter'.timesWindow = meter.timesWindow
                  /\ meter'.blockTimeMs = meter.blockTimeMs
                  /\ meter'.blockTimeAvgMs = meter.blockTimeAvgMs
    ]_vars

\* after blocks 12 s apart a block 1 s older was answered: the one sample
\* of 12000 ms is still the block time and the average
C36_Witness ==
  /\ meter.seen = <<12000>>
  /\ meter.blockTimeMs = <<12000>>
  /\ meter.blockTimeAvgMs = <<12000, 1>>
  /\ meter.lastBlockTimestampSec = <<111>>
  /\ parseInt16(meter.asked.block.timestamp) = <<111>>

\* C37 (as claimed): a monitor that is not stopped and has no poll cycle in
\* progress has snapshot.connected equal to rpc.isConnected().
C37_ConnectedIsLive ==
  (~node.stopped /\ node.polls = {})
    => (node.snapshot.connected <=> isConnected(node.rpc))

\* C38 (as claimed): while a name is removed and not upserted again, no
\* handler passes an update of a monitor of that name to emit.
C38_RemovedIsSilent ==
  [][ \A i \in emitters(reg') :
        hist'[reg'.entries[i].name] # "removed" ]_vars

\* C39 (as claimed): a name that was upserted and is absent from the map,
\* which it is from the moment remove() returned true for it until upsert()
\* is called with it again, stays absent from the map, from list() and from
\* the persisted set in every step but that call of upsert(), which
\* registers it at once (the monitor made by the timer of a replacing
\* upsert has the monitor it replaces as its origin).
C39_RemoveIsFinal ==
  [][ \A n \in Names :
        (hist[n] # "never" /\ reg.nodes[n] = 0) =>
          \/ /\ reg'.nodes[n] = 0
             /\ n \notin listNames(reg')
             /\ \A p \in reg'.persisted : p.name # n
          \/ /\ reg'.nodes[n] # 0
             /\ reg'.origin[reg'.nodes[n]] = 0 ]_vars

\* what a step does to the pending table, hows being the ways a request may
\* be settled: a request settles only in the step that takes it out of the
\* table, once, and in one of hows; it leaves the table only by settling
\* and never comes back; a request in the table has its timer armed for
\* createdAt + timeoutMs and no other request has a timer
C40_TableStep(hows) ==
  /\ \A x \in rpc'.last :
       /\ x.id \in pendingIds(rpc) \/ x.id = rpc.idCounter
       /\ x.id \notin pendingIds(rpc')
       /\ x.how \in hows
       /\ \A y \in rpc'.last : y.id = x.id => y = x
  /\ \A i \in pendingIds(rpc) \ pendingIds(rpc') :
       \E x \in rpc'.last : x.id = i
  /\ pendingIds(rpc') \subseteq pendingIds(rpc) \cup {rpc.idCounter}
  /\ rpc'.idCounter >= rpc.idCounter
  /\ \A p \in rpc'.pending :
       /\ p.id < rpc'.idCounter
       /\ timerOf(rpc', p.id) = {[id |-> p.id, at |-> p.createdAt + p.timeoutMs]}
  /\ \A x \in rpc'.timeouts : x.id \in pendingIds(rpc')

\* C40 (as claimed): every request put in the pending table is settled
\* exactly once, by a response, its timeout, the close or the stale sweep,
\* and the table holds exactly the unsettled requests, each with its timer.
C40_SettledOnce ==
  [][ C40_TableStep({"result", "RemoteError", "ProtocolError", "Timeout",
                     "ConnectionClosed", "Expired"}) ]_vars

\* C40 (amended): the same, a request whose send throws being settled at
\* once with the error of the send.
C40_SettledOnceOrSendFails ==
  [][ C40_TableStep({"result", "RemoteError", "ProtocolError", "Timeout",
                     "ConnectionClosed", "Expired", "SendError"}) ]_vars

\* a response settled one request while another stays in the table
C40_Witness ==
  /\ ev = "message"
  /\ \E x \in rpc.last : x.how = "result"
  /\ rpc.pending # {}

====
